---- MODULE Spec2Model ----
(***************************************************************************)
(* Model of the Bank Australia -> Actual transaction importer.             *)
(*                                                                         *)
(*   src/src/index.ts           command line, mapping validation, main     *)
(*   src/src/bank_australia.ts  CSV row classification, per-file import    *)
(*   src/src/actual.ts          ledger session, taxonomy cache             *)
(*   src/dist/utils.js          extractDate, toTitleCase                   *)
(*                                                                         *)
(* Strings are TLA+ strings; characters are read with SubSeq, so the       *)
(* regular expressions of the source are matched character by character    *)
(* by a backtracking matcher with JavaScript's priority order.             *)
(***************************************************************************)
EXTENDS Integers, Sequences, FiniteSets, TLC

(***************************************************************************)
(* Characters and character classes                                        *)
(***************************************************************************)
Digit == {"0", "1", "2", "3", "4", "5", "6", "7", "8", "9"}

Upper == {"A", "B", "C", "D", "E", "F", "G", "H", "I", "J", "K", "L", "M",
          "N", "O", "P", "Q", "R", "S", "T", "U", "V", "W", "X", "Y", "Z"}

Lower == {"a", "b", "c", "d", "e", "f", "g", "h", "i", "j", "k", "l", "m",
          "n", "o", "p", "q", "r", "s", "t", "u", "v", "w", "x", "y", "z"}

\* \w
WordCh == Upper \cup Lower \cup Digit \cup {"_"}

\* \s (the whitespace that occurs in one-line CSV fields)
SpaceCh == {" ", "\t"}

\* [0-9a-fA-F]
HexCh == Digit \cup {"a", "b", "c", "d", "e", "f", "A", "B", "C", "D", "E", "F"}

\* [A-z]: the ASCII range from A to z, which holds punctuation marks too (the
\* backslash and the grave accent, also in the range, occur in no input here)
RangeAz == Upper \cup Lower \cup {"[", "]", "^", "_"}

CharAt(s, i) == SubSeq(s, i, i)

\* a variant of startsWith that asks for the whole string (=== in its place)
StartsWithWhole(s, p) == s = p

\* String.prototype.startsWith
StartsWith(s, p) == Len(s) >= Len(p) /\ SubSeq(s, 1, Len(p)) = p

(***************************************************************************)
(* Regular expressions: abstract syntax                                    *)
(***************************************************************************)
Lit(str) == [t |-> "lit", s |-> str]
Cls(chars) == [t |-> "cls", cs |-> chars]
Dot == [t |-> "dot"]
Cat(res) == [t |-> "cat", rs |-> res]
Alt(res) == [t |-> "alt", rs |-> res]
\* r{lo,hi}; hi = -1 is unbounded; greedy or lazy
Rep(re, lo, hi, greedy) == [t |-> "rep", r |-> re, lo |-> lo, hi |-> hi, g |-> greedy]
Star(re) == Rep(re, 0, -1, TRUE)
Plus(re) == Rep(re, 1, -1, TRUE)
Opt(re) == Rep(re, 0, 1, TRUE)
LazyStar(re) == Rep(re, 0, -1, FALSE)
Times(re, n) == Rep(re, n, n, TRUE)
\* capturing group number k
Cap(k, re) == [t |-> "cap", k |-> k, r |-> re]
\* (?=r)
Look(re) == [t |-> "look", r |-> re]
Bol == [t |-> "bol"]
Eol == [t |-> "eol"]

\* the capturing groups of an expression are numbered 1..7 at most; an unset
\* group is <<>>, a set one is <<text>>
NoCaps == [k \in 1..7 |-> <<>>]

(***************************************************************************)
(* Backtracking matcher.  M(re, s, i, caps) is the sequence of ways re     *)
(* matches s from position i, in the order a backtracking engine tries     *)
(* them: each is the position after the match and the captures.            *)
(***************************************************************************)
RECURSIVE M(_, _, _, _)
RECURSIVE MCat(_, _, _, _, _)
RECURSIVE MCatEach(_, _, _, _, _, _)
RECURSIVE MAlt(_, _, _, _, _)
RECURSIVE MRep(_, _, _, _, _)
RECURSIVE MRepEach(_, _, _, _, _, _, _)

\* one character of s at position i matched by the one-character expression re
MatchesChar(re, s, i) ==
  /\ i <= Len(s)
  /\ IF re.t = "cls" THEN CharAt(s, i) \in re.cs ELSE CharAt(s, i) # "\n"

\* the longest run of characters from position i that re matches one by one
RunLength(re, s, i) ==
  LET runs == {n \in 0..(Len(s) + 1 - i) : \A k \in 0..(n - 1) : MatchesChar(re, s, i + k)}
  IN CHOOSE n \in runs : \A m \in runs : m <= n

\* a repetition of a one-character expression: every count between lo and
\* the run length (and hi), longest first when greedy, shortest first when lazy
MRepChar(re, s, i, caps) ==
  LET run == RunLength(re.r, s, i)
      top == IF re.hi = -1 \/ run < re.hi THEN run ELSE re.hi
      cnt == IF top >= re.lo THEN top - re.lo + 1 ELSE 0
  IN [j \in 1..cnt |->
       [pos |-> IF re.g THEN i + top - (j - 1) ELSE i + re.lo + (j - 1), caps |-> caps]]

M(re, s, i, caps) ==
  CASE re.t = "lit" ->
         IF i + Len(re.s) - 1 <= Len(s) /\ SubSeq(s, i, i + Len(re.s) - 1) = re.s
         THEN <<[pos |-> i + Len(re.s), caps |-> caps]>> ELSE <<>>
    [] re.t \in {"cls", "dot"} ->
         IF MatchesChar(re, s, i) THEN <<[pos |-> i + 1, caps |-> caps]>> ELSE <<>>
    [] re.t = "cat" -> MCat(re.rs, 1, s, i, caps)
    [] re.t = "alt" -> MAlt(re.rs, 1, s, i, caps)
    [] re.t = "rep" ->
         IF re.r.t \in {"cls", "dot"} THEN MRepChar(re, s, i, caps)
         ELSE MRep(re, 0, s, i, caps)
    [] re.t = "cap" ->
         LET inner == M(re.r, s, i, caps)
         IN [j \in 1..Len(inner) |->
              [pos |-> inner[j].pos,
               caps |-> [inner[j].caps EXCEPT ![re.k] = <<SubSeq(s, i, inner[j].pos - 1)>>]]]
    [] re.t = "look" ->
         IF M(re.r, s, i, caps) # <<>> THEN <<[pos |-> i, caps |-> caps]>> ELSE <<>>
    [] re.t = "bol" -> IF i = 1 THEN <<[pos |-> i, caps |-> caps]>> ELSE <<>>
    [] re.t = "eol" -> IF i = Len(s) + 1 THEN <<[pos |-> i, caps |-> caps]>> ELSE <<>>

\* the rest of a concatenation, from its k-th part
MCat(rs, k, s, i, caps) ==
  IF k > Len(rs) THEN <<[pos |-> i, caps |-> caps]>>
  ELSE LET heads == M(rs[k], s, i, caps)
       IN MCatEach(rs, k, s, heads, 1, Len(heads))

\* the continuations of heads[lo..hi], in order
MCatEach(rs, k, s, heads, lo, hi) ==
  IF lo > hi THEN <<>>
  ELSE IF lo = hi THEN MCat(rs, k + 1, s, heads[lo].pos, heads[lo].caps)
  ELSE LET mid == (lo + hi) \div 2
       IN MCatEach(rs, k, s, heads, lo, mid) \o MCatEach(rs, k, s, heads, mid + 1, hi)

MAlt(rs, k, s, i, caps) ==
  IF k > Len(rs) THEN <<>>
  ELSE M(rs[k], s, i, caps) \o MAlt(rs, k + 1, s, i, caps)

\* a repetition of a longer expression, n repetitions done; an iteration
\* that consumes nothing is not repeated
MRep(re, n, s, i, caps) ==
  LET heads == M(re.r, s, i, caps)
      more == IF re.hi = -1 \/ n < re.hi
              THEN MRepEach(re, n, s, i, heads, 1, Len(heads)) ELSE <<>>
      stop == IF n >= re.lo THEN <<[pos |-> i, caps |-> caps]>> ELSE <<>>
  IN IF re.g THEN more \o stop ELSE stop \o more

MRepEach(re, n, s, i, heads, lo, hi) ==
  IF lo > hi THEN <<>>
  ELSE IF lo = hi
       THEN (IF heads[lo].pos > i THEN MRep(re, n + 1, s, heads[lo].pos, heads[lo].caps)
             ELSE <<>>)
  ELSE LET mid == (lo + hi) \div 2
       IN MRepEach(re, n, s, i, heads, lo, mid) \o MRepEach(re, n, s, i, heads, mid + 1, hi)

\* RegExp.prototype.exec without the g flag: the first way to match at the
\* leftmost position where there is one; null is [found |-> FALSE]
Exec(re, s) ==
  LET Found(i0, way) ==
        [found |-> TRUE, all |-> SubSeq(s, i0, way.pos - 1),
         g |-> [k \in 1..7 |-> IF way.caps[k] = <<>> THEN "" ELSE way.caps[k][1]]]
      FirstAt(i0) == Found(i0, M(re, s, i0, NoCaps)[1])
      From(starts) ==
        IF starts = {} THEN [found |-> FALSE]
        ELSE FirstAt(CHOOSE i \in starts : \A j \in starts : i <= j)
  IN From({i \in 1..(Len(s) + 1) : M(re, s, i, NoCaps) # <<>>})

\* RegExp.prototype.test
Test(re, s) == Exec(re, s).found

(***************************************************************************)
(* String helpers of the JavaScript runtime                                *)
(***************************************************************************)
UpperLetters == "ABCDEFGHIJKLMNOPQRSTUVWXYZ"
LowerLetters == "abcdefghijklmnopqrstuvwxyz"
DigitChars == "0123456789"

IndexIn(c, str) == CHOOSE i \in 1..Len(str) : CharAt(str, i) = c

\* String.prototype.toUpperCase / toLowerCase on one character
ToUpperChar(c) == IF c \in Lower THEN CharAt(UpperLetters, IndexIn(c, LowerLetters)) ELSE c
ToLowerChar(c) == IF c \in Upper THEN CharAt(LowerLetters, IndexIn(c, UpperLetters)) ELSE c

\* the string whose i-th character is f[i], for i in lo..hi
RECURSIVE Build(_, _, _)
Build(f, lo, hi) ==
  IF lo > hi THEN ""
  ELSE IF lo = hi THEN f[lo]
  ELSE LET mid == (lo + hi) \div 2 IN Build(f, lo, mid) \o Build(f, mid + 1, hi)

\* String.prototype.trim
Trim(s) ==
  LET inked == {i \in 1..Len(s) : CharAt(s, i) \notin SpaceCh}
  IN IF inked = {} THEN ""
     ELSE SubSeq(s, CHOOSE i \in inked : \A j \in inked : i <= j,
                    CHOOSE i \in inked : \A j \in inked : j <= i)

\* s.split(sep)[0]: the text before the first sep (all of s without one)
BeforeFirst(s, sep) ==
  LET at == {i \in 1..Len(s) : CharAt(s, i) = sep}
  IN IF at = {} THEN s ELSE SubSeq(s, 1, (CHOOSE i \in at : \A j \in at : i <= j) - 1)

\* s.split(sep).pop(): the text after the last sep (all of s without one)
AfterLast(s, sep) ==
  LET at == {i \in 1..Len(s) : CharAt(s, i) = sep}
  IN IF at = {} THEN s ELSE SubSeq(s, (CHOOSE i \in at : \A j \in at : j <= i) + 1, Len(s))

\* a variant of join that forgets the separator it is given
Join3Spaced(a, b, c, sep) == a \o " " \o b \o " " \o c

\* Array.prototype.join of three strings
Join3(a, b, c, sep) == a \o sep \o b \o sep \o c

\* the value of a string of decimal digits
RECURSIVE DigitsValue(_)
DigitsValue(s) ==
  IF s = "" THEN 0
  ELSE 10 * DigitsValue(SubSeq(s, 1, Len(s) - 1)) + (IndexIn(CharAt(s, Len(s)), DigitChars) - 1)

(***************************************************************************)
(* src/dist/utils.js                                                       *)
(***************************************************************************)
\* toTitleCase: str.replace(/\w\S*/g, txt => upper(first) + lower(rest)).
\* A match starts at the first word character of a run of non-space
\* characters and runs to its end.
ToTitleCase(str) ==
  LET runStart(i) == CHOOSE j \in 1..i :
                        /\ \A k \in j..i : CharAt(str, k) \notin SpaceCh
                        /\ (j = 1 \/ CharAt(str, j - 1) \in SpaceCh)
      wordsBefore(i) == {j \in runStart(i)..i : CharAt(str, j) \in WordCh}
      out(i) == LET c == CharAt(str, i)
                IN IF c \in SpaceCh \/ wordsBefore(i) = {} THEN c
                   ELSE IF wordsBefore(i) = {i} THEN ToUpperChar(c)
                   ELSE ToLowerChar(c)
  IN Build([i \in 1..Len(str) |-> out(i)], 1, Len(str))

MonthNames == <<"January", "February", "March", "April", "May", "June", "July",
                "August", "September", "October", "November", "December">>
DayNames == <<"Mon", "Tue", "Wed", "Thu", "Fri", "Sat", "Sun">>

\* the format 'h:mma EEE d MMMM, yyyy' handed to date-fns parse
DateRe ==
  Cat(<<Bol, Cap(1, Rep(Cls(Digit), 1, 2, TRUE)), Lit(":"), Cap(2, Times(Cls(Digit), 2)),
        Cap(3, Alt(<<Lit("am"), Lit("pm")>>)), Lit(" "),
        Cap(4, Alt([i \in 1..7 |-> Lit(DayNames[i])])), Lit(" "),
        Cap(5, Rep(Cls(Digit), 1, 2, TRUE)), Lit(" "),
        Cap(6, Alt([i \in 1..12 |-> Lit(MonthNames[i])])), Lit(", "),
        Cap(7, Times(Cls(Digit), 4)), Eol>>)

\* the decimal prefix parseFloat reads: digits, then optionally a point and
\* more digits (amounts of the export carry no sign and no exponent)
FloatRe == Cat(<<Bol, Star(Cls(SpaceCh)), Cap(1, Plus(Cls(Digit))),
                 Opt(Cat(<<Lit("."), Cap(2, Star(Cls(Digit)))>>))>>)

(***************************************************************************)
(* src/src/bank_australia.ts: the expressions of the parsers                *)
(***************************************************************************)
\* /Transfer to \w+ ([0-9]+)/
TransferToRe == Cat(<<Lit("Transfer to "), Plus(Cls(WordCh)), Lit(" "), Cap(1, Plus(Cls(Digit)))>>)

\* /Ext TFR - NET# (\d+) to \d+ ([A-z\s]+) (?:[A-Z]+) - .*/
ExtTransferRe ==
  Cat(<<Lit("Ext TFR - NET# "), Cap(1, Plus(Cls(Digit))), Lit(" to "), Plus(Cls(Digit)),
        Lit(" "), Cap(2, Plus(Cls(RangeAz \cup SpaceCh))), Lit(" "), Plus(Cls(Upper)),
        Lit(" - "), Star(Dot)>>)

\* /Net tfr to \w+ (\d+)\. Rec No.: (\d+), .*/  (the point after No is unescaped)
NetTfrToRe ==
  Cat(<<Lit("Net tfr to "), Plus(Cls(WordCh)), Lit(" "), Cap(1, Plus(Cls(Digit))),
        Lit(". Rec No"), Dot, Lit(": "), Cap(2, Plus(Cls(Digit))), Lit(", "), Star(Dot)>>)

\* /Osko Payment To ([\w\s]+) (?:[\w@.]+|Account [\w\s-]+|[\+\d-]+) Ref#(\d+)/
OskoToRe ==
  Cat(<<Lit("Osko Payment To "), Cap(1, Plus(Cls(WordCh \cup SpaceCh))), Lit(" "),
        Alt(<<Plus(Cls(WordCh \cup {"@", "."})),
              Cat(<<Lit("Account "), Plus(Cls(WordCh \cup SpaceCh \cup {"-"}))>>),
              Plus(Cls(Digit \cup {"+", "-"}))>>),
        Lit(" Ref#"), Cap(2, Plus(Cls(Digit)))>>)

\* /Direct Debit ([\w\s]+) - .*/
DirectDebitRe ==
  Cat(<<Lit("Direct Debit "), Cap(1, Plus(Cls(WordCh \cup SpaceCh))), Lit(" - "), Star(Dot)>>)

\* /Osko Payment From ([\w\s]+)/
OskoFromRe == Cat(<<Lit("Osko Payment From "), Cap(1, Plus(Cls(WordCh \cup SpaceCh)))>>)

\* /Direct Credit (.+) - .*/
DirectCreditRe == Cat(<<Lit("Direct Credit "), Cap(1, Plus(Dot)), Lit(" - "), Star(Dot)>>)

\* /Internet BPay to ([\w\s]+) - Biller Code (\d+) - Receipt No (\d+)/
BPayRe ==
  Cat(<<Lit("Internet BPay to "), Cap(1, Plus(Cls(WordCh \cup SpaceCh))),
        Lit(" - Biller Code "), Cap(2, Plus(Cls(Digit))),
        Lit(" - Receipt No "), Cap(3, Plus(Cls(Digit)))>>)

\* /VISA(?: Refund)?-(.*?)( HTTP| WWW|#)/
VisaPayeeRe ==
  Cat(<<Lit("VISA"), Opt(Lit(" Refund")), Lit("-"), Cap(1, LazyStar(Dot)),
        Cap(2, Alt(<<Lit(" HTTP"), Lit(" WWW"), Lit("#")>>))>>)

\* /\*([\w]*[A-Z\. ]*)(?=\d|[A-Z][a-z])/
GatewayPayeeRe ==
  Cat(<<Lit("*"), Cap(1, Cat(<<Star(Cls(WordCh)), Star(Cls(Upper \cup {".", " "}))>>)),
        Look(Alt(<<Cls(Digit), Cat(<<Cls(Upper), Cls(Lower)>>)>>))>>)

\* /Ref\.(\d+)/
ReferenceNumberRe == Cat(<<Lit("Ref."), Cap(1, Plus(Cls(Digit)))>>)

(***************************************************************************)
(* The texts of the rows                                                   *)
(***************************************************************************)
BPayPayees == {"Energy Co", "Water Corp 2", "A&B Gas"}
BillerCodes == {"12345", "7"}
ReceiptNumbers == {"987654321", "42"}

\* the narrative of a BPAY payment to payee under a biller code and a receipt
BPayNarrative(payee, code, receipt) ==
  "Internet BPay to " \o payee \o " - Biller Code " \o code \o " - Receipt No " \o receipt

\* the account numbers a transfer narrative names
TransferAccounts == {"87654321", "99999999"}

Narratives ==
  {"Transfer to SAV " \o a : a \in TransferAccounts}
  \cup {"Net tfr to SAV " \o a \o ". Rec No.: 1234567890, Rent" : a \in TransferAccounts}
  \cup {BPayNarrative(p, c, r) : p \in BPayPayees, c \in BillerCodes, r \in ReceiptNumbers}
  \cup { "Transfer to savings",
         "Received from S1 12345678",
         "Net tfr to SAV",
         "Net tfr received from S1 12345678",
         "Net tfr pending",
         "Interest Credit",
         "Cash Advance Fee",
         "Purchase/Base Interest - Period End Balance: $1,111.11",
         "Ext TFR - NET# 1234567890 to 5665665 Some Company Name Here ABC - SOME COMPANY NAME HERE",
         "Osko Payment To Jane Doe jane@example.com Ref#555000111",
         "Osko Payment To Z PERSON +61-400000000 Ref#123456789",
         "Osko Payment To Jane",
         "Direct Debit COMPANY NAME - 123456789",
         "Osko Payment From PERSON ONE",
         "Direct Credit COMPANY NAME - 123456789",
         "SWIFT PAYMENT",
         "Internet BPay to Energy Co",
         "VISA-MY SUPERMARKET 12345 SYDNEY AU#000000(Ref.1111111111) Android Pay",
         "VISA-BOTTLE SHOP 77 SYDNEY AU#000001(Ref.2222222222)",
         "VISA-CLOUDFLARE HTTPSWWW.CLOUUSFRGN AMT-11.1111111#123455(Ref.0123456789)",
         "VISA-PAYPAL *STORE NAME 9999999 AU#123456(Ref.0123456781)",
         "VISA Refund-Store Name NL#234567",
         "EFTPOS PURCHASE" }

DateTexts == {"12:00am Sat 31 December, 2022", "3:15pm Tue 28 February, 2023", "31/12/2022"}
AmountTexts == {"0.0", "0", "0.00", "10.00", "12.50", "30.00", "9.99", "1.23", "25.50",
                "100.00", "80.00", ""}

\* the expressions by name
Regexes ==
  [DateRe |-> DateRe, FloatRe |-> FloatRe, TransferToRe |-> TransferToRe,
   ExtTransferRe |-> ExtTransferRe, NetTfrToRe |-> NetTfrToRe, OskoToRe |-> OskoToRe,
   DirectDebitRe |-> DirectDebitRe, OskoFromRe |-> OskoFromRe,
   DirectCreditRe |-> DirectCreditRe, BPayRe |-> BPayRe, VisaPayeeRe |-> VisaPayeeRe,
   GatewayPayeeRe |-> GatewayPayeeRe, ReferenceNumberRe |-> ReferenceNumberRe]

KnownTexts == Narratives \cup DateTexts \cup AmountTexts

\* regex.exec(text) for every named expression and known text, computed once
MatchTable == [name \in DOMAIN Regexes |-> [text \in KnownTexts |-> Exec(Regexes[name], text)]]

\* regex.exec(text), read from the table where the table has it
Match(name, text) ==
  IF text \in KnownTexts THEN MatchTable[name][text] ELSE Exec(Regexes[name], text)

(***************************************************************************)
(* extractDate (src/dist/utils.js) and the amounts                         *)
(***************************************************************************)
DaysIn(month, year) ==
  IF month = 2 THEN (IF year % 4 = 0 /\ (year % 100 # 0 \/ year % 400 = 0) THEN 29 ELSE 28)
  ELSE IF month \in {4, 6, 9, 11} THEN 30 ELSE 31

InvalidDate == [valid |-> FALSE]

\* extractDate: parse, then setHours(getHours() + 10).  A string that does
\* not fit the format gives date-fns' Invalid Date, which setHours leaves
\* invalid; nothing is thrown.  The day name is read and not used: the
\* texts of DateTexts carry the day name of their date, so date-fns does not
\* move the date to another day of the week.
ExtractDate(dateString) ==
  LET Shifted(y, mo, d2, h, mi) ==
        LET wrap == d2 > DaysIn(mo, y)
        IN [valid |-> TRUE,
            year |-> IF wrap /\ mo = 12 THEN y + 1 ELSE y,
            month |-> IF wrap THEN (mo % 12) + 1 ELSE mo,
            day |-> IF wrap THEN 1 ELSE d2,
            hour |-> h % 24, minute |-> mi]
      Parsed(h12, mi, d, mo, y, h24) ==
        IF h12 \notin 1..12 \/ mi > 59 \/ d \notin 1..DaysIn(mo, y) THEN InvalidDate
        ELSE Shifted(y, mo, IF h24 + 10 >= 24 THEN d + 1 ELSE d, h24 + 10, mi)
      Fields(h12, mi, pm, d, month, y) ==
        Parsed(h12, mi, d, CHOOSE i \in 1..12 : MonthNames[i] = month, y,
               (h12 % 12) + (IF pm = "pm" THEN 12 ELSE 0))
      Of(m) ==
        IF ~m.found THEN InvalidDate
        ELSE Fields(DigitsValue(m.g[1]), DigitsValue(m.g[2]), m.g[3],
                    DigitsValue(m.g[5]), m.g[6], DigitsValue(m.g[7]))
  IN Of(Match("DateRe", dateString))

\* NaN is <<>>, the integer n is <<n>>
NaN == <<>>

\* Math.round(parseFloat(text) * 100)
AmountToInteger(text) ==
  LET Rounded(whole, frac) ==
        <<100 * DigitsValue(whole) + DigitsValue(SubSeq(frac, 1, 2))
          + (IF DigitsValue(SubSeq(frac, 3, 3)) >= 5 THEN 1 ELSE 0)>>
      Of(m) == IF ~m.found THEN NaN ELSE Rounded(m.g[1], m.g[2] \o "000")
  IN Of(Match("FloatRe", text))

\* credit - debit on numbers
Minus(a, b) == IF a = NaN \/ b = NaN THEN NaN ELSE <<a[1] - b[1]>>

(***************************************************************************)
(* Values                                                                  *)
(***************************************************************************)
\* an optional field: undefined is <<>>, the value v is <<v>>
Undefined == <<>>
Some(v) == <<v>>

\* enum TransactionType
TypeAll == "ALL"
TypeAllWdls == "ALL WDLS"
TypeAllDeposits == "ALL DEPOSITS"
TypeBPay == "BPAY"
TypeVisa == "VISA"

\* BankAustralia.PayeeName
PayeeName == "Bank Australia"

\* a variant of the override table that is empty
NoCategoryOverrides(categoryList) == Undefined

\* BankAustralia.CategoryOverrides: the overriding name, or undefined
CategoryOverrides(categoryList) ==
  IF categoryList = "Liquor Store, Restricted" THEN Some("Groceries") ELSE Undefined

\* the messages of the errors thrown while a row is parsed
ErrAccountNotFound == "Unable to find account with account number"
ErrTransferPayee == "Unable to find transfer payee for account"
ErrTransferNumber == "Unable to extract bank account number from transfer"
ErrTransferDetails == "Unable to extract reference and payee details from transfer"
ErrOsko == "Unable to extract payee name and reference number from Osko payment"
ErrDirectDebit == "Unable to extract payee name from direct debit"
ErrUnhandledWdls == "Unhandled all wdls transaction type"
ErrOskoFrom == "Unable to extract payee name from Osko payment"
ErrDirectCredit == "Unable to extract payee name from direct credit"
ErrUnhandledDeposits == "Unhandled all deposits transaction type"
ErrBPay == "Unable to extract payee name and reference number from BPay payment"
ErrVisaPayee == "Unable to extract payee name from VISA payment"
ErrUnknownType == "Unknown transaction type"

\* what parsing a row comes to: no transaction (undefined), a thrown error, a
\* transaction, or a suspension in createCategoryAsync(name) with the
\* transaction built so far
Suppressed == [kind |-> "suppress"]
Thrown(message) == [kind |-> "error", error |-> message]
Candidate(transaction) == [kind |-> "candidate", txn |-> transaction]
AwaitCreate(categoryName, transaction) ==
  [kind |-> "create", name |-> categoryName, txn |-> transaction]

\* Array.prototype.find: the first element with the property, as an option
FindFirst(seq, Holds(_)) ==
  LET hits == {i \in 1..Len(seq) : Holds(seq[i])}
  IN IF hits = {} THEN Undefined ELSE Some(seq[CHOOSE i \in hits : \A j \in hits : i <= j])

\* Map.prototype.get
MapGet(map, key) == IF key \in DOMAIN map THEN Some(map[key]) ELSE Undefined

(***************************************************************************)
(* src/src/bank_australia.ts: the parsers, one per transaction type        *)
(***************************************************************************)
\* a variant of the lookup that lets a destination outside the mapping through,
\* without a payee
TransferToUnchecked(bankAccountNumber, importedId, transaction, idMapping, payees) ==
  LET actualAccountId == MapGet(idMapping, bankAccountNumber)
      transferPayee == FindFirst(payees, LAMBDA p : p.transfer_acct = actualAccountId)
  IN IF actualAccountId = Undefined \/ transferPayee = Undefined
     THEN Candidate([transaction EXCEPT !.imported_id = importedId])
     ELSE Candidate([transaction EXCEPT !.payee = Some(transferPayee[1].id),
                                        !.imported_id = importedId])

\* a variant of the lookup that takes the first transfer payee there is
\* (p => p.transfer_acct)
TransferToAnyPayee(bankAccountNumber, importedId, transaction, idMapping, payees) ==
  LET actualAccountId == MapGet(idMapping, bankAccountNumber)
      transferPayee == FindFirst(payees, LAMBDA p : p.transfer_acct # Undefined)
  IN IF actualAccountId = Undefined THEN Thrown(ErrAccountNotFound)
     ELSE IF transferPayee = Undefined THEN Thrown(ErrTransferPayee)
     ELSE Candidate([transaction EXCEPT !.payee = Some(transferPayee[1].id),
                                        !.imported_id = importedId])

\* the lookup of the account a transfer goes to and of its transfer payee
\* (lines 214-231 and 278-297); importedId is the reference, when there is one
TransferTo(bankAccountNumber, importedId, transaction, idMapping, payees) ==
  LET actualAccountId == MapGet(idMapping, bankAccountNumber)
      transferPayee == FindFirst(payees, LAMBDA p : p.transfer_acct = actualAccountId)
  IN IF actualAccountId = Undefined THEN Thrown(ErrAccountNotFound)
     ELSE IF transferPayee = Undefined THEN Thrown(ErrTransferPayee)
     ELSE Candidate([transaction EXCEPT !.payee = Some(transferPayee[1].id),
                                        !.imported_id = importedId])

\* the return of the interest branch (lines 243-247), once the category is there
InterestDone(transaction, category) ==
  Candidate([transaction EXCEPT !.payee_name = Some(PayeeName),
                                !.category = Some(category.id)])

InterestLabels == {"Interest Credit", "Credit Card Interest", "Cash Advance Fee"}

\* a variant of parseTransactionTypeAllAsync without the catch-all: a narrative
\* no branch takes is an error, as it is for the other types
ParseTransactionTypeAllStrict(row, transaction, idMapping, payees, categories) ==
  LET long == row.long
      uncleared == Thrown(ErrUnknownType)
      InternalTransfer(matches) ==
        IF ~matches.found THEN Thrown(ErrTransferNumber)
        ELSE TransferTo(matches.g[1], Undefined, transaction, idMapping, payees)
      Interest(category) ==
        IF category = Undefined
        THEN AwaitCreate("Interest", [type |-> TypeAll, txn |-> transaction])
        ELSE InterestDone(transaction, category[1])
      ExternalTransfer(matches) ==
        IF ~matches.found THEN Thrown(ErrTransferDetails)
        ELSE Candidate([transaction EXCEPT !.payee_name = Some(matches.g[2]),
                                           !.imported_id = Some(matches.g[1])])
      NetTransfer(matches) ==
        IF ~matches.found THEN Thrown(ErrTransferDetails)
        ELSE TransferTo(matches.g[1], Some(matches.g[2]), transaction, idMapping, payees)
  IN IF row.desc = "Internet Transfer"
     THEN IF StartsWith(long, "Transfer to ")
          THEN InternalTransfer(Match("TransferToRe", long))
          ELSE IF StartsWith(long, "Received from") THEN Suppressed
          ELSE uncleared
     ELSE IF long \in InterestLabels
     THEN Interest(FindFirst(categories, LAMBDA c : c.name = "Interest"))
     ELSE IF row.desc = "Internet Ext Transfer"
     THEN ExternalTransfer(Match("ExtTransferRe", long))
     ELSE IF StartsWith(long, "Net tfr")
     THEN IF StartsWith(long, "Net tfr to")
          THEN NetTransfer(Match("NetTfrToRe", long))
          ELSE IF StartsWith(long, "Net tfr received from") THEN Suppressed
          ELSE uncleared
     ELSE uncleared

\* parseTransactionTypeAllAsync
ParseTransactionTypeAll(row, transaction, idMapping, payees, categories) ==
  LET long == row.long
      uncleared == Candidate([transaction EXCEPT !.cleared = FALSE])
      InternalTransfer(matches) ==
        IF ~matches.found THEN Thrown(ErrTransferNumber)
        ELSE TransferTo(matches.g[1], Undefined, transaction, idMapping, payees)
      Interest(category) ==
        IF category = Undefined
        THEN AwaitCreate("Interest", [type |-> TypeAll, txn |-> transaction])
        ELSE InterestDone(transaction, category[1])
      ExternalTransfer(matches) ==
        IF ~matches.found THEN Thrown(ErrTransferDetails)
        ELSE Candidate([transaction EXCEPT !.payee_name = Some(matches.g[2]),
                                           !.imported_id = Some(matches.g[1])])
      NetTransfer(matches) ==
        IF ~matches.found THEN Thrown(ErrTransferDetails)
        ELSE TransferTo(matches.g[1], Some(matches.g[2]), transaction, idMapping, payees)
  IN IF row.desc = "Internet Transfer"
     THEN IF StartsWith(long, "Transfer to ")
          THEN InternalTransfer(Match("TransferToRe", long))
          ELSE IF StartsWith(long, "Received from") THEN Suppressed
          ELSE uncleared
     ELSE IF long \in InterestLabels
     THEN Interest(FindFirst(categories, LAMBDA c : c.name = "Interest"))
     ELSE IF row.desc = "Internet Ext Transfer"
     THEN ExternalTransfer(Match("ExtTransferRe", long))
     ELSE IF StartsWith(long, "Net tfr")
     THEN IF StartsWith(long, "Net tfr to")
          THEN NetTransfer(Match("NetTfrToRe", long))
          ELSE IF StartsWith(long, "Net tfr received from") THEN Suppressed
          ELSE uncleared
     ELSE uncleared

\* a variant of parseTransactionTypeAllWdls that ignores a narrative it does
\* not handle (return undefined)
ParseTransactionTypeAllWdlsLenient(row, transaction) ==
  LET Osko(matches) ==
        IF ~matches.found THEN Thrown(ErrOsko)
        ELSE Candidate([transaction EXCEPT !.payee_name = Some(matches.g[1]),
                                           !.imported_id = Some(matches.g[2])])
      DirectDebit(matches) ==
        IF ~matches.found THEN Thrown(ErrDirectDebit)
        ELSE Candidate([transaction EXCEPT !.payee_name = Some(matches.g[1])])
  IN IF StartsWith(row.long, "Osko Payment To") THEN Osko(Match("OskoToRe", row.long))
     ELSE IF StartsWith(row.long, "Direct Debit")
     THEN DirectDebit(Match("DirectDebitRe", row.long))
     ELSE Suppressed

\* parseTransactionTypeAllWdls
ParseTransactionTypeAllWdls(row, transaction) ==
  LET Osko(matches) ==
        IF ~matches.found THEN Thrown(ErrOsko)
        ELSE Candidate([transaction EXCEPT !.payee_name = Some(matches.g[1]),
                                           !.imported_id = Some(matches.g[2])])
      DirectDebit(matches) ==
        IF ~matches.found THEN Thrown(ErrDirectDebit)
        ELSE Candidate([transaction EXCEPT !.payee_name = Some(matches.g[1])])
  IN IF StartsWith(row.long, "Osko Payment To") THEN Osko(Match("OskoToRe", row.long))
     ELSE IF StartsWith(row.long, "Direct Debit")
     THEN DirectDebit(Match("DirectDebitRe", row.long))
     ELSE Thrown(ErrUnhandledWdls)

\* parseTransactionTypeAllDeposits
ParseTransactionTypeAllDeposits(row, transaction) ==
  LET Osko(matches) ==
        IF ~matches.found THEN Thrown(ErrOskoFrom)
        ELSE Candidate([transaction EXCEPT !.payee_name = Some(matches.g[1])])
      DirectCredit(matches) ==
        IF ~matches.found THEN Thrown(ErrDirectCredit)
        ELSE Candidate([transaction EXCEPT !.payee_name = Some(matches.g[1])])
  IN IF StartsWith(row.long, "Osko Payment From") THEN Osko(Match("OskoFromRe", row.long))
     ELSE IF StartsWith(row.long, "Direct Credit")
     THEN DirectCredit(Match("DirectCreditRe", row.long))
     ELSE IF StartsWith(row.long, "SWIFT")
     THEN Candidate([transaction EXCEPT !.payee_name = Some(row.desc)])
     ELSE Thrown(ErrUnhandledDeposits)

\* a variant of parseTransactionTypeBPay that puts the receipt number first
ParseTransactionTypeBPaySwapped(row, transaction) ==
  LET BPay(matches) ==
        IF ~matches.found THEN Thrown(ErrBPay)
        ELSE Candidate([transaction EXCEPT
                          !.payee_name = Some(matches.g[1]),
                          !.imported_id = Some(matches.g[3] \o "-" \o matches.g[2])])
  IN BPay(Match("BPayRe", row.long))

\* parseTransactionTypeBPay
ParseTransactionTypeBPay(row, transaction) ==
  LET BPay(matches) ==
        IF ~matches.found THEN Thrown(ErrBPay)
        ELSE Candidate([transaction EXCEPT
                          !.payee_name = Some(matches.g[1]),
                          !.imported_id = Some(matches.g[2] \o "-" \o matches.g[3])])
  IN BPay(Match("BPayRe", row.long))

\* parseTransactionTypeVisaAsync, line 445: the overriding name, else the last
\* part of the category list, trimmed
VisaCategoryName(categoryList) ==
  LET override == CategoryOverrides(categoryList)
  IN IF override # Undefined THEN override[1] ELSE Trim(AfterLast(categoryList, ","))

\* parseTransactionTypeVisaAsync, lines 447-485: the payee name, or the error
VisaPayeeName(row) ==
  LET merchantName == row.merchant
      Extracted(match) ==
        IF ~match.found THEN Undefined ELSE Some(Trim(ToTitleCase(match.g[1])))
  IN IF merchantName # "" /\ merchantName # "PayPal" /\ merchantName # "Square"
     THEN Some(Trim(BeforeFirst(merchantName, "(")))
     ELSE Extracted(Match(IF merchantName = "PayPal" \/ merchantName = "Square"
                          THEN "GatewayPayeeRe" ELSE "VisaPayeeRe", row.long))

\* a variant of the return of parseTransactionTypeVisaAsync that takes the
\* missing reference for an error, as the other parsers take theirs
VisaDoneStrict(row, transaction, payee_name, category) ==
  LET Done(referenceNumberMatches) ==
        IF ~referenceNumberMatches.found THEN Thrown(ErrVisaPayee)
        ELSE Candidate([transaction EXCEPT
                          !.payee_name = Some(payee_name),
                          !.category = IF category # Undefined THEN Some(category[1].id)
                                       ELSE Undefined,
                          !.imported_id = Some(referenceNumberMatches.g[1])])
  IN Done(Match("ReferenceNumberRe", row.long))

\* parseTransactionTypeVisaAsync, lines 494-508: the reference and the return;
\* category is the category found or created, as an option
VisaDone(row, transaction, payee_name, category) ==
  LET Done(referenceNumberMatches) ==
        Candidate([transaction EXCEPT
                     !.payee_name = Some(payee_name),
                     !.category = IF category # Undefined THEN Some(category[1].id)
                                  ELSE Undefined,
                     !.imported_id = IF referenceNumberMatches.found
                                     THEN Some(referenceNumberMatches.g[1])
                                     ELSE Undefined])
  IN Done(Match("ReferenceNumberRe", row.long))

\* parseTransactionTypeVisaAsync up to the return or to createCategoryAsync
ParseTransactionTypeVisa(row, transaction, categories) ==
  LET Lookup(category_name, payee_name, category) ==
        IF payee_name = Undefined THEN Thrown(ErrVisaPayee)
        ELSE IF category = Undefined /\ category_name # ""
        THEN AwaitCreate(category_name,
                         [type |-> TypeVisa, txn |-> transaction,
                          payee_name |-> payee_name[1]])
        ELSE VisaDone(row, transaction, payee_name[1], category)
      Named(category_name) ==
        Lookup(category_name, VisaPayeeName(row),
               FindFirst(categories, LAMBDA c : c.name = category_name))
  IN Named(VisaCategoryName(row.cats))

\* a variant of the zero test that asks for a credit (!== on the credit)
IsZeroDebit(debit, credit) == debit = <<0>> /\ credit # <<0>>

\* line 138: debit === 0 && credit === 0
IsZeroValue(debit, credit) == debit = <<0>> /\ credit = <<0>>

\* csvDataRowToTransactionAsync up to its return, its throw or its suspension
\* in createCategoryAsync
CsvDataRowToTransaction(row, idMapping, payees, categories) ==
  LET Dispatch(transaction) ==
        CASE row.type = TypeAll ->
               ParseTransactionTypeAll(row, transaction, idMapping, payees, categories)
          [] row.type = TypeAllWdls -> ParseTransactionTypeAllWdls(row, transaction)
          [] row.type = TypeAllDeposits -> ParseTransactionTypeAllDeposits(row, transaction)
          [] row.type = TypeBPay -> ParseTransactionTypeBPay(row, transaction)
          [] row.type = TypeVisa -> ParseTransactionTypeVisa(row, transaction, categories)
          [] OTHER -> Thrown(ErrUnknownType)
      Parsed(date, debit, credit, account) ==
        IF IsZeroValue(debit, credit) THEN Suppressed
        ELSE IF account = Undefined THEN Thrown(ErrAccountNotFound)
        ELSE Dispatch([account |-> account[1], date |-> date,
                       amount |-> Minus(credit, debit),
                       notes |-> Join3(row.long, row.merchant, row.cats, "|"),
                       imported_payee |-> row.long, cleared |-> TRUE,
                       payee |-> Undefined, payee_name |-> Undefined,
                       category |-> Undefined, imported_id |-> Undefined])
  IN Parsed(ExtractDate(row.date), AmountToInteger(row.debit), AmountToInteger(row.credit),
            MapGet(idMapping, row.acct))

\* the rest of csvDataRowToTransactionAsync once createCategoryAsync has
\* returned category
ResumeAfterCreate(row, frame, category) ==
  IF frame.type = TypeAll THEN InterestDone(frame.txn, category)
  ELSE VisaDone(row, frame.txn, frame.payee_name, Some(category))

(***************************************************************************)
(* src/src/index.ts and the two CheckAccountIdFormat                        *)
(***************************************************************************)
\* BankAustralia.CheckAccountIdFormat: /^\d{8}$/ on a string that is there
BankCheckAccountIdFormat(accountId) ==
  /\ accountId # Undefined
  /\ accountId[1] # ""
  /\ Test(Cat(<<Bol, Times(Cls(Digit), 8), Eol>>), accountId[1])

\* /[0-9a-fA-F]{8}-[0-9a-fA-F]{4}-[0-9a-fA-F]{4}-[0-9a-fA-F]{4}-[0-9a-fA-F]{12}/
ActualIdRe ==
  Cat(<<Times(Cls(HexCh), 8), Lit("-"), Times(Cls(HexCh), 4), Lit("-"),
        Times(Cls(HexCh), 4), Lit("-"), Times(Cls(HexCh), 4), Lit("-"),
        Times(Cls(HexCh), 12)>>)

\* Actual.CheckAccountIdFormat
ActualCheckAccountIdFormat(accountId) ==
  /\ accountId # Undefined
  /\ accountId[1] # ""
  /\ Test(ActualIdRe, accountId[1])

\* const [bankAccountId, actualAccountId] = mappingStr.split('='): the first
\* two parts, the second undefined when there is no '='
SplitMapping(mappingStr) ==
  LET bankAccountId == BeforeFirst(mappingStr, "=")
      rest == SubSeq(mappingStr, Len(bankAccountId) + 2, Len(mappingStr))
  IN [bankAccountId |-> Some(bankAccountId),
      actualAccountId |-> IF Len(bankAccountId) = Len(mappingStr) THEN Undefined
                          ELSE Some(BeforeFirst(rest, "="))]

\* the test of line 27 on one mapping string
MappingAccepted(mappingStr) ==
  LET pair == SplitMapping(mappingStr)
  IN /\ BankCheckAccountIdFormat(pair.bankAccountId)
     /\ ActualCheckAccountIdFormat(pair.actualAccountId)

\* the Map built by lines 23-33 from accepted strings: a later pair replaces
\* an earlier one with the same bank account
BuildMapping(accountMapping) ==
  LET keys == {SplitMapping(accountMapping[i]).bankAccountId[1] : i \in 1..Len(accountMapping)}
      last(k) == CHOOSE i \in 1..Len(accountMapping) :
                   /\ SplitMapping(accountMapping[i]).bankAccountId[1] = k
                   /\ \A j \in (i + 1)..Len(accountMapping) :
                        SplitMapping(accountMapping[j]).bankAccountId[1] # k
  IN [k \in keys |-> SplitMapping(accountMapping[last(k)]).actualAccountId[1]]

(***************************************************************************)
(* Inputs                                                                  *)
(***************************************************************************)
\* files of a run and rows of a file
MaxFiles == 2
MaxRows == 2

EverydayId == "12345678-1234-1234-1234-123456789012"
SavingsId == "0aBcDeF0-0000-4000-8000-00000000000b"

\* the --account-mapping arguments of a run
AccountMappingArgs ==
  { <<"12345678=" \o EverydayId, "87654321=" \o SavingsId>>,
    <<"12345678=" \o EverydayId>>,
    <<"12345678=" \o EverydayId, "87654321=zz" \o SavingsId \o "zz">>,
    <<"1234567=" \o EverydayId>>,
    <<"12345678=" \o EverydayId, "123456789=" \o SavingsId>>,
    <<"a2345678=" \o EverydayId>>,
    <<"12345678=hello", "87654321=" \o SavingsId>>,
    <<"12345678=" \o EverydayId, "87654321=0aBcDeF0-0000-4000-8000-00000000000">>,
    <<"12345678=" \o EverydayId, "87654321=0aBcDeF0_0000-4000-8000-00000000000b">>,
    <<"12345678">>,
    <<"=" \o EverydayId>>,
    <<"12345678=">> }

\* what the ledger holds when the session starts: accounts, payees, categories
Person == [id |-> "payee-shop", name |-> "Corner Shop", transfer_acct |-> Undefined]
TransferPayee(payeeId, accountId) ==
  [id |-> payeeId, name |-> "", transfer_acct |-> Some(accountId)]
Category(categoryId, categoryName, groupId, isIncome) ==
  [id |-> categoryId, name |-> categoryName, group_id |-> groupId, is_income |-> isIncome]
BothAccounts ==
  <<[id |-> EverydayId, name |-> "Everyday"], [id |-> SavingsId, name |-> "Savings"]>>

Ledgers ==
  { \* a new budget: no Groceries, no Interest; both transfer payees
    [accounts |-> BothAccounts,
     payees |-> <<Person, TransferPayee("payee-everyday", EverydayId),
                  TransferPayee("payee-savings", SavingsId)>>,
     categories |-> <<Category("cat-food", "Food", "group-usual", FALSE),
                      Category("cat-salary", "Salary", "group-income", TRUE)>>],
    \* a budget in use: Groceries and Interest exist; Savings has no transfer
    \* payee and is no account of the budget
    [accounts |-> <<[id |-> EverydayId, name |-> "Everyday"]>>,
     payees |-> <<TransferPayee("payee-everyday", EverydayId), Person>>,
     categories |-> <<Category("cat-interest", "Interest", "group-income", TRUE),
                      Category("cat-bills", "Bills", "group-bills", FALSE),
                      Category("cat-groceries", "Groceries", "group-usual", FALSE)>>],
    \* a budget without any income category
    [accounts |-> BothAccounts,
     payees |-> <<Person>>,
     categories |-> <<Category("cat-food", "Food", "group-usual", FALSE)>>] }

Row(acct, type, debit, credit, desc, long, merchant, cats) ==
  [acct |-> acct, type |-> type, date |-> "12:00am Sat 31 December, 2022",
   debit |-> debit, credit |-> credit, desc |-> desc, long |-> long,
   merchant |-> merchant, cats |-> cats]

NoRow == Row("", "", "", "", "", "", "", "")

\* the rows a file of a run is drawn from
RunRows ==
  { \* a balance line of an account that is not mapped
    Row("99999999", TypeAll, "0.0", "0.0", "Purchase/Base Interest",
        "Purchase/Base Interest - Period End Balance: $1,111.11", "", ""),
    Row("99999999", TypeVisa, "12.50", "0.0", "PURCHASE",
        "VISA-MY SUPERMARKET 12345 SYDNEY AU#000000(Ref.1111111111) Android Pay",
        "My Supermarket (Sydney)", "Supermarket, Groceries"),
    Row("12345678", TypeVisa, "30.00", "0.0", "PURCHASE",
        "VISA-BOTTLE SHOP 77 SYDNEY AU#000001(Ref.2222222222)",
        "Bottle Shop (Sydney)", "Liquor Store, Restricted"),
    Row("87654321", TypeVisa, "12.50", "0.0", "PURCHASE",
        "VISA-MY SUPERMARKET 12345 SYDNEY AU#000000(Ref.1111111111) Android Pay",
        "My Supermarket (Sydney)", "Supermarket, Groceries"),
    Row("12345678", TypeVisa, "9.99", "0.0", "PURCHASE",
        "VISA-PAYPAL *STORE NAME 9999999 AU#123456(Ref.0123456781)",
        "PayPal", "Payment Gateway, Services"),
    Row("12345678", TypeAll, "0.0", "1.23", "Interest", "Interest Credit", "", ""),
    Row("12345678", TypeAll, "100.00", "0.0", "Internet Transfer",
        "Transfer to SAV 87654321", "", ""),
    Row("87654321", TypeAll, "0.0", "100.00", "Internet Transfer",
        "Received from S1 12345678", "", ""),
    Row("87654321", TypeBPay, "80.00", "0.0", "BPAY",
        "Internet BPay to Energy Co - Biller Code 12345 - Receipt No 987654321", "", ""),
    \* a direct debit whose effective date is not in the format of the export
    [Row("12345678", TypeAllWdls, "25.50", "0.0", "Direct Debit",
         "Direct Debit COMPANY NAME - 123456789", "", "") EXCEPT !.date = "31/12/2022"] }

\* the fields a row handed to the classifier on its own is made of
RowAccounts == {"12345678", "99999999"}
RowTypes == {TypeAll, TypeAllWdls, TypeAllDeposits, TypeBPay, TypeVisa, "CHEQUE"}
RowAmounts == {<<"0.0", "0.0">>, <<"0", "0.00">>, <<"12.50", "0.0">>, <<"0.0", "100.00">>}
RowDescriptions == {"Internet Transfer", "Internet Ext Transfer", "PURCHASE"}
RowMerchants ==
  {<<"", "">>, <<"My Supermarket (Sydney)", "Supermarket, Groceries">>,
   <<"Bottle Shop (Sydney)", "Liquor Store, Restricted">>, <<"PayPal", "">>}
RowDates == {"12:00am Sat 31 December, 2022", "31/12/2022"}

\* every row made of these fields and of a narrative
AllRows ==
  {[Row(a, t, n[1], n[2], d, l, m[1], m[2]) EXCEPT !.date = day] :
     a \in RowAccounts, t \in RowTypes, n \in RowAmounts, d \in RowDescriptions,
     l \in Narratives, m \in RowMerchants, day \in RowDates}

(***************************************************************************)
(* State                                                                   *)
(***************************************************************************)
VARIABLES
  pc,            \* where the program is: start, exited, main, an awaited call, rows, done, aborted
  files,         \* the number of paths in options.file
  accountMapping,\* options.accountMapping
  ledger,        \* what the ledger service holds at session start
  idMapping,     \* BankAustralia._idMapping
  isInitialised, \* Actual._isInitialised
  accounts,      \* Actual._accounts
  payees,        \* Actual._payees
  categories,    \* Actual._categories
  groupIds,      \* Actual._defaultCategoryGroupId and _incomeCategoryGroupId
  fileNo,        \* the number of the file importTransactionsAsync works on
  rowNo,         \* the number of rows of the file handed to the classifier
  row,           \* the row handed to csvDataRowToTransactionAsync last
  result,        \* what csvDataRowToTransactionAsync came to for it
  transactions,  \* the transactions array of importTransactionsAsync
  groups,        \* accountGroupedTransactions, in key order
  batchNo,       \* the number of groups handed to Actual.importTransactionsAsync
  inflight,      \* the remote call awaited, or "none"
  calls,         \* how many times each remote call was issued
  created,       \* the categories createCategory was called with, in order
  submitted,     \* the batches of the current file importTransactions was called with
  error          \* the message of the error that ended the run, or ""

vars == <<pc, files, accountMapping, ledger, idMapping, isInitialised, accounts, payees,
          categories, groupIds, fileNo, rowNo, row, result, transactions, groups,
          batchNo, inflight, calls, created, submitted, error>>

RemoteCalls == {"init", "downloadBudget", "getAccounts", "getPayees", "getCategories",
                "createCategory", "importTransactions", "shutdown"}

NoResult == [kind |-> "none"]
NoGroupIds == [default |-> Undefined, income |-> Undefined]

ErrNotInitialised == "Actual not initialised, call initialiseActual() first"
ErrNoGroup == "No category group ID found, cannot create category"
ErrAccountMissing == "Account not found"
ErrTypeError == "TypeError: Cannot read properties of undefined (reading 'group_id')"
ErrRemote == "remote call failed"

Init ==
  /\ pc = "start"
  /\ files \in 1..MaxFiles
  /\ accountMapping \in AccountMappingArgs
  /\ ledger \in Ledgers
  /\ idMapping = <<>>
  /\ isInitialised = FALSE
  /\ accounts = <<>>
  /\ payees = <<>>
  /\ categories = <<>>
  /\ groupIds = NoGroupIds
  /\ fileNo = 0
  /\ rowNo = 0
  /\ row = NoRow
  /\ result = NoResult
  /\ transactions = <<>>
  /\ groups = <<>>
  /\ batchNo = 0
  /\ inflight = "none"
  /\ calls = [c \in RemoteCalls |-> 0]
  /\ created = <<>>
  /\ submitted = <<>>
  /\ error = ""

\* a variant of the call that is issued and not awaited: the program goes on
\* with no call to wait for
IssueUnawaited(call, at) ==
  /\ inflight' = "none"
  /\ calls' = [calls EXCEPT ![call] = @ + 1]
  /\ pc' = at

\* a remote call is issued and awaited
Issue(call, at) ==
  /\ inflight' = call
  /\ calls' = [calls EXCEPT ![call] = @ + 1]
  /\ pc' = at

\* an error leaves main: the promise rejects and the process ends
Abort(message) ==
  /\ pc' = "aborted"
  /\ error' = message
  /\ inflight' = "none"

(***************************************************************************)
(* index.ts lines 23-33: the mapping loop, run before main                 *)
(***************************************************************************)
ValidateMapping ==
  /\ pc = "start"
  /\ IF \E i \in 1..Len(accountMapping) : ~MappingAccepted(accountMapping[i])
     THEN /\ pc' = "exited"
          /\ error' = "Invalid account mapping or invalid account format"
          /\ UNCHANGED idMapping
     ELSE /\ pc' = "main"
          /\ idMapping' = BuildMapping(accountMapping)
          /\ UNCHANGED error
  /\ UNCHANGED <<files, accountMapping, ledger, isInitialised, accounts, payees, categories,
                 groupIds, fileNo, rowNo, row, result, transactions, groups, batchNo,
                 inflight, calls, created, submitted>>

(***************************************************************************)
(* index.ts main and BankAustralia.importTransactionsAsync                 *)
(***************************************************************************)
\* readCsv and the start of the row loop (lines 77-81)
EnterRows ==
  /\ rowNo' = 0
  /\ row' = NoRow
  /\ result' = NoResult
  /\ transactions' = <<>>
  /\ groups' = <<>>
  /\ batchNo' = 0
  /\ submitted' = <<>>

\* a variant of the start of a file that initialises the session for every
\* file, whether it is there or not
StartFileAlwaysInit ==
  /\ pc = "main"
  /\ fileNo < files
  /\ fileNo' = fileNo + 1
  /\ EnterRows
  /\ Issue("init", "init")
  /\ UNCHANGED <<files, accountMapping, ledger, idMapping, isInitialised, accounts, payees,
                 categories, groupIds, created, error>>

\* main takes the next file: importTransactionsAsync starts, with
\* initialiseActualAsync first when the session is not there
StartFile ==
  /\ pc = "main"
  /\ fileNo < files
  /\ fileNo' = fileNo + 1
  /\ EnterRows
  /\ IF ~isInitialised
     THEN Issue("init", "init")
     ELSE /\ pc' = "rows"
          /\ UNCHANGED <<inflight, calls>>
  /\ UNCHANGED <<files, accountMapping, ledger, idMapping, isInitialised, accounts, payees,
                 categories, groupIds, created, error>>

\* initialiseActualAsync, one awaited call after the other
InitReturn ==
  /\ pc = "init" /\ inflight = "init"
  /\ Issue("downloadBudget", "download")
  /\ UNCHANGED <<files, accountMapping, ledger, idMapping, isInitialised, accounts, payees,
                 categories, groupIds, fileNo, rowNo, row, result, transactions, groups,
                 batchNo, created, submitted, error>>

DownloadReturn ==
  /\ pc = "download" /\ inflight = "downloadBudget"
  /\ Issue("getAccounts", "getAccounts")
  /\ UNCHANGED <<files, accountMapping, ledger, idMapping, isInitialised, accounts, payees,
                 categories, groupIds, fileNo, rowNo, row, result, transactions, groups,
                 batchNo, created, submitted, error>>

GetAccountsReturn ==
  /\ pc = "getAccounts" /\ inflight = "getAccounts"
  /\ accounts' = ledger.accounts
  /\ Issue("getPayees", "getPayees")
  /\ UNCHANGED <<files, accountMapping, ledger, idMapping, isInitialised, payees,
                 categories, groupIds, fileNo, rowNo, row, result, transactions, groups,
                 batchNo, created, submitted, error>>

GetPayeesReturn ==
  /\ pc = "getPayees" /\ inflight = "getPayees"
  /\ payees' = ledger.payees
  /\ Issue("getCategories", "getCategories")
  /\ UNCHANGED <<files, accountMapping, ledger, idMapping, isInitialised, accounts,
                 categories, groupIds, fileNo, rowNo, row, result, transactions, groups,
                 batchNo, created, submitted, error>>

\* lines 148-162, then readCsv: the group ids are those of the first category
\* that is not income and of the first that is
GetCategoriesReturn ==
  /\ pc = "getCategories" /\ inflight = "getCategories"
  /\ categories' = ledger.categories
  /\ LET usual == FindFirst(ledger.categories, LAMBDA c : ~c.is_income)
         income == FindFirst(ledger.categories, LAMBDA c : c.is_income)
     IN IF usual = Undefined \/ income = Undefined
        THEN /\ Abort(ErrTypeError)
             /\ UNCHANGED <<groupIds, isInitialised>>
        ELSE /\ groupIds' = [default |-> Some(usual[1].group_id),
                             income |-> Some(income[1].group_id)]
             /\ isInitialised' = TRUE
             /\ pc' = "rows"
             /\ inflight' = "none"
             /\ UNCHANGED error
  /\ UNCHANGED <<files, accountMapping, ledger, idMapping, accounts, payees, fileNo, rowNo,
                 row, result, transactions, groups, batchNo, calls, created, submitted>>

(***************************************************************************)
(* src/src/actual.ts: createCategoryAsync and importTransactionsAsync      *)
(***************************************************************************)
\* a variant of the category built from a name that knows one group only
NewCategoryInDefaultGroup(name, ids) == [name |-> name, group_id |-> ids.default[1]]

\* createCategoryAsync lines 177-180: the category built from a name
NewCategory(name, ids) ==
  [name |-> name,
   group_id |-> IF name = "Interest" THEN ids.income[1] ELSE ids.default[1]]

\* the id the ledger gives the n-th category created in the run
NewCategoryId(n) == "cat-new-" \o ToString(n)

\* importTransactionsAsync line 196
FindAccount(account) == FindFirst(accounts, LAMBDA a : a.id = account \/ a.name = account)

(***************************************************************************)
(* The row loop of importTransactionsAsync (lines 81-86)                    *)
(***************************************************************************)
\* a variant of the row loop whose catch logs the error of a row and does not
\* throw it again: the row is left out and the loop goes on
ClassifyRowSwallowing(rows) ==
  LET Settle(outcome) ==
        /\ result' = outcome
        /\ CASE outcome.kind = "suppress" ->
                  UNCHANGED <<pc, transactions, inflight, calls, created, error>>
             [] outcome.kind = "candidate" ->
                  /\ transactions' = Append(transactions, outcome.txn)
                  /\ UNCHANGED <<pc, inflight, calls, created, error>>
             [] outcome.kind = "error" ->
                  UNCHANGED <<pc, transactions, inflight, calls, created, error>>
             [] outcome.kind = "create" ->
                  IF ~isInitialised
                  THEN /\ Abort(ErrNotInitialised)
                       /\ UNCHANGED <<transactions, calls, created>>
                  ELSE IF groupIds.default = Undefined \/ groupIds.income = Undefined
                  THEN /\ Abort(ErrNoGroup)
                       /\ UNCHANGED <<transactions, calls, created>>
                  ELSE /\ Issue("createCategory", "create")
                       /\ created' = Append(created, NewCategory(outcome.name, groupIds))
                       /\ UNCHANGED <<transactions, error>>
  IN /\ pc = "rows"
     /\ rowNo < MaxRows
     /\ rowNo' = rowNo + 1
     /\ \E r \in rows :
          /\ row' = r
          /\ Settle(CsvDataRowToTransaction(r, idMapping, payees, categories))
     /\ UNCHANGED <<files, accountMapping, ledger, idMapping, isInitialised, accounts, payees,
                    categories, groupIds, fileNo, groups, batchNo, submitted>>

\* the next row of the file, one of rows, is handed to
\* csvDataRowToTransactionAsync, which returns, throws or suspends in
\* createCategoryAsync
ClassifyRow(rows) ==
  LET Settle(outcome) ==
        /\ result' = outcome
        /\ CASE outcome.kind = "suppress" ->
                  UNCHANGED <<pc, transactions, inflight, calls, created, error>>
             [] outcome.kind = "candidate" ->
                  /\ transactions' = Append(transactions, outcome.txn)
                  /\ UNCHANGED <<pc, inflight, calls, created, error>>
             [] outcome.kind = "error" ->
                  /\ Abort(outcome.error)
                  /\ UNCHANGED <<transactions, calls, created>>
             [] outcome.kind = "create" ->
                  IF ~isInitialised
                  THEN /\ Abort(ErrNotInitialised)
                       /\ UNCHANGED <<transactions, calls, created>>
                  ELSE IF groupIds.default = Undefined \/ groupIds.income = Undefined
                  THEN /\ Abort(ErrNoGroup)
                       /\ UNCHANGED <<transactions, calls, created>>
                  ELSE /\ Issue("createCategory", "create")
                       /\ created' = Append(created, NewCategory(outcome.name, groupIds))
                       /\ UNCHANGED <<transactions, error>>
  IN /\ pc = "rows"
     /\ rowNo < MaxRows
     /\ rowNo' = rowNo + 1
     /\ \E r \in rows :
          /\ row' = r
          /\ Settle(CsvDataRowToTransaction(r, idMapping, payees, categories))
     /\ UNCHANGED <<files, accountMapping, ledger, idMapping, isInitialised, accounts, payees,
                    categories, groupIds, fileNo, groups, batchNo, submitted>>

\* a variant of the return of createCategory that leaves the cache as it is
CreateCategoryReturnUncached ==
  LET Resume(outcome) ==
        /\ result' = outcome
        /\ transactions' = Append(transactions, outcome.txn)
      Created(request) ==
        Resume(ResumeAfterCreate(row, result.txn,
                 [id |-> NewCategoryId(calls["createCategory"]), name |-> request.name,
                  group_id |-> request.group_id, is_income |-> FALSE]))
  IN /\ pc = "create" /\ inflight = "createCategory"
     /\ Created(created[Len(created)])
     /\ pc' = "rows"
     /\ inflight' = "none"
     /\ UNCHANGED <<files, accountMapping, ledger, idMapping, isInitialised, accounts, payees,
                    categories, groupIds, fileNo, rowNo, row, groups, batchNo, calls,
                    created, submitted, error>>

\* a variant of the return of createCategory that puts the category in the
\* place of the last one of the cache
CreateCategoryReturnReplacing ==
  LET Resume(outcome) ==
        /\ result' = outcome
        /\ transactions' = Append(transactions, outcome.txn)
      Put(category) ==
        /\ categories' = [categories EXCEPT ![Len(categories)] = category]
        /\ Resume(ResumeAfterCreate(row, result.txn, category))
      Created(request) ==
        Put([id |-> NewCategoryId(calls["createCategory"]), name |-> request.name,
             group_id |-> request.group_id, is_income |-> FALSE])
  IN /\ pc = "create" /\ inflight = "createCategory"
     /\ Created(created[Len(created)])
     /\ pc' = "rows"
     /\ inflight' = "none"
     /\ UNCHANGED <<files, accountMapping, ledger, idMapping, isInitialised, accounts, payees,
                    groupIds, fileNo, rowNo, row, groups, batchNo, calls, created,
                    submitted, error>>

\* createCategory returns the new id: the category is pushed on the cache
\* and the parser goes on to its return (actual.ts 183-188)
CreateCategoryReturn ==
  LET Resume(outcome) ==
        /\ result' = outcome
        /\ transactions' = Append(transactions, outcome.txn)
      Push(category) ==
        /\ categories' = Append(categories, category)
        /\ Resume(ResumeAfterCreate(row, result.txn, category))
      Created(request) ==
        Push([id |-> NewCategoryId(calls["createCategory"]), name |-> request.name,
              group_id |-> request.group_id, is_income |-> FALSE])
  IN /\ pc = "create" /\ inflight = "createCategory"
     /\ Created(created[Len(created)])
     /\ pc' = "rows"
     /\ inflight' = "none"
     /\ UNCHANGED <<files, accountMapping, ledger, idMapping, isInitialised, accounts, payees,
                    groupIds, fileNo, rowNo, row, groups, batchNo, calls, created,
                    submitted, error>>

(***************************************************************************)
(* Grouping and submission (lines 88-106)                                   *)
(***************************************************************************)
\* a variant of the grouping that keeps the last transaction of an account only
\* (acc[transaction.account] = [transaction])
GroupByAccountLastOnly(txns) ==
  LET first(a) == CHOOSE i \in 1..Len(txns) :
                    txns[i].account = a /\ \A j \in 1..(i - 1) : txns[j].account # a
      last(a) == CHOOSE i \in 1..Len(txns) :
                   txns[i].account = a /\ \A j \in (i + 1)..Len(txns) : txns[j].account # a
      keys == {txns[i].account : i \in 1..Len(txns)}
      key(k) == CHOOSE a \in keys : Cardinality({b \in keys : first(b) < first(a)}) = k - 1
  IN [k \in 1..Cardinality(keys) |->
       [account |-> key(k), transactions |-> <<txns[last(key(k))]>>]]

\* transactions.reduce(...): one group per account, in the order the accounts
\* first occur (the keys hold a UUID, so none is an array index)
GroupByAccount(txns) ==
  LET first(a) == CHOOSE i \in 1..Len(txns) :
                    txns[i].account = a /\ \A j \in 1..(i - 1) : txns[j].account # a
      keys == {txns[i].account : i \in 1..Len(txns)}
      key(k) == CHOOSE a \in keys : Cardinality({b \in keys : first(b) < first(a)}) = k - 1
  IN [k \in 1..Cardinality(keys) |->
       [account |-> key(k),
        transactions |-> SelectSeq(txns, LAMBDA t : t.account = key(k))]]

\* Actual.importTransactionsAsync for the k-th group of grouped
SubmitBatch(grouped, k) ==
  LET accountObj == FindAccount(grouped[k].account)
  IN IF ~isInitialised
     THEN Abort(ErrNotInitialised) /\ UNCHANGED <<batchNo, calls, submitted>>
     ELSE IF accountObj = Undefined
     THEN Abort(ErrAccountMissing) /\ UNCHANGED <<batchNo, calls, submitted>>
     ELSE /\ Issue("importTransactions", "import")
          /\ batchNo' = k
          /\ submitted' = Append(submitted, [account |-> accountObj[1].id,
                                             transactions |-> grouped[k].transactions])
          /\ UNCHANGED error

\* Actual.syncActualAsync
Sync ==
  IF ~isInitialised
  THEN Abort(ErrNotInitialised) /\ UNCHANGED calls
  ELSE Issue("downloadBudget", "sync") /\ UNCHANGED error

\* the file has no more rows: the transactions are grouped and the first
\* group is submitted, or the sync is called when there is none
EndOfRows ==
  /\ pc = "rows"
  /\ groups' = GroupByAccount(transactions)
  /\ IF groups' = <<>>
     THEN Sync /\ UNCHANGED <<batchNo, submitted>>
     ELSE SubmitBatch(groups', 1)
  /\ UNCHANGED <<files, accountMapping, ledger, idMapping, isInitialised, accounts, payees,
                 categories, groupIds, fileNo, rowNo, row, result, transactions, created>>

\* importTransactions returns: the next group is submitted, or the sync called
ImportReturn ==
  /\ pc = "import" /\ inflight = "importTransactions"
  /\ IF batchNo < Len(groups)
     THEN SubmitBatch(groups, batchNo + 1)
     ELSE Sync /\ UNCHANGED <<batchNo, submitted>>
  /\ UNCHANGED <<files, accountMapping, ledger, idMapping, isInitialised, accounts, payees,
                 categories, groupIds, fileNo, rowNo, row, result, transactions, groups,
                 created>>

\* the sync returns: importTransactionsAsync returns to the loop of main
SyncReturn ==
  /\ pc = "sync" /\ inflight = "downloadBudget"
  /\ pc' = "main"
  /\ inflight' = "none"
  /\ UNCHANGED <<files, accountMapping, ledger, idMapping, isInitialised, accounts, payees,
                 categories, groupIds, fileNo, rowNo, row, result, transactions, groups,
                 batchNo, calls, created, submitted, error>>

\* a variant of the end of main that does not wait for the loop over the
\* files to end: the shutdown is called after any file
ShutdownAfterAnyFile ==
  /\ pc = "main"
  /\ fileNo >= 1
  /\ IF ~isInitialised
     THEN Abort(ErrNotInitialised) /\ UNCHANGED calls
     ELSE Issue("shutdown", "shutdown") /\ UNCHANGED error
  /\ UNCHANGED <<files, accountMapping, ledger, idMapping, isInitialised, accounts, payees,
                 categories, groupIds, fileNo, rowNo, row, result, transactions, groups,
                 batchNo, created, submitted>>

\* main has no more files: shutdownActualAsync
Shutdown ==
  /\ pc = "main"
  /\ fileNo = files
  /\ IF ~isInitialised
     THEN Abort(ErrNotInitialised) /\ UNCHANGED calls
     ELSE Issue("shutdown", "shutdown") /\ UNCHANGED error
  /\ UNCHANGED <<files, accountMapping, ledger, idMapping, isInitialised, accounts, payees,
                 categories, groupIds, fileNo, rowNo, row, result, transactions, groups,
                 batchNo, created, submitted>>

ShutdownReturn ==
  /\ pc = "shutdown" /\ inflight = "shutdown"
  /\ isInitialised' = FALSE
  /\ pc' = "done"
  /\ inflight' = "none"
  /\ UNCHANGED <<files, accountMapping, ledger, idMapping, accounts, payees, categories,
                 groupIds, fileNo, rowNo, row, result, transactions, groups, batchNo,
                 calls, created, submitted, error>>

\* a variant of the failure of the awaited call: the call is made again, up
\* to three times
RemoteFailRetried ==
  /\ inflight # "none"
  /\ calls[inflight] < 3
  /\ calls' = [calls EXCEPT ![inflight] = @ + 1]
  /\ error' = ErrRemote
  /\ UNCHANGED <<pc, inflight, files, accountMapping, ledger, idMapping, isInitialised, accounts,
                 payees, categories, groupIds, fileNo, rowNo, row, result, transactions,
                 groups, batchNo, created, submitted>>

\* the awaited remote call fails: the error leaves main
RemoteFail ==
  /\ inflight # "none"
  /\ Abort(ErrRemote)
  /\ UNCHANGED <<files, accountMapping, ledger, idMapping, isInitialised, accounts, payees,
                 categories, groupIds, fileNo, rowNo, row, result, transactions, groups,
                 batchNo, calls, created, submitted>>

Next ==
  \/ ValidateMapping
  \/ StartFile
  \/ InitReturn
  \/ DownloadReturn
  \/ GetAccountsReturn
  \/ GetPayeesReturn
  \/ GetCategoriesReturn
  \/ ClassifyRow(RunRows)
  \/ CreateCategoryReturn
  \/ EndOfRows
  \/ ImportReturn
  \/ SyncReturn
  \/ Shutdown
  \/ ShutdownReturn
  \/ RemoteFail

Spec == Init /\ [][Next]_vars

(***************************************************************************)
(* The classifier on its own: a run that has its session and both accounts *)
(* mapped is at the last row of its first file, and that row is any row    *)
(***************************************************************************)
InitRow ==
  /\ pc = "rows"
  /\ files = 1
  /\ accountMapping = <<"12345678=" \o EverydayId, "87654321=" \o SavingsId>>
  /\ ledger \in {l \in Ledgers : /\ FindFirst(l.categories, LAMBDA c : c.is_income) # Undefined
                                 /\ FindFirst(l.categories, LAMBDA c : ~c.is_income) # Undefined}
  /\ idMapping = BuildMapping(accountMapping)
  /\ isInitialised = TRUE
  /\ accounts = ledger.accounts
  /\ payees = ledger.payees
  /\ categories = ledger.categories
  /\ groupIds = [default |-> Some(FindFirst(ledger.categories, LAMBDA c : ~c.is_income)[1].group_id),
                 income |-> Some(FindFirst(ledger.categories, LAMBDA c : c.is_income)[1].group_id)]
  /\ fileNo = 1
  /\ rowNo = MaxRows - 1
  /\ row = NoRow
  /\ result = NoResult
  /\ transactions = <<>>
  /\ groups = <<>>
  /\ batchNo = 0
  /\ inflight = "none"
  /\ calls = [c \in RemoteCalls |->
                IF c \in {"init", "downloadBudget", "getAccounts", "getPayees", "getCategories"}
                THEN 1 ELSE 0]
  /\ created = <<>>
  /\ submitted = <<>>
  /\ error = ""

NextRow ==
  \/ ClassifyRow(AllRows)
  \/ CreateCategoryReturn
  \/ RemoteFail

SpecRow == InitRow /\ [][NextRow]_vars

(***************************************************************************)
(* Properties.  Under SpecRow the state after a row has been classified    *)
(* holds the row and what csvDataRowToTransactionAsync came to.            *)
(***************************************************************************)
\* s begins with p
HasPrefix(s, p) == Len(s) >= Len(p) /\ SubSeq(s, 1, Len(p)) = p

\* a row has been handed to the classifier
Classified == row # NoRow

\* both amounts of the row parse to zero
ZeroAmounts(r) == AmountToInteger(r.debit) = <<0>> /\ AmountToInteger(r.credit) = <<0>>

\* the row was suppressed: no candidate, no error, the loop goes on
RowSuppressed ==
  /\ result = Suppressed
  /\ transactions = <<>>
  /\ pc = "rows"
  /\ error = ""

\* the run was aborted by the account-not-found error, with no candidate
AccountNotFoundAbort ==
  /\ pc = "aborted"
  /\ error = ErrAccountNotFound
  /\ result.kind = "error"
  /\ transactions = <<>>

\* C1: a row whose debit and credit both parse to zero is suppressed (no
\* candidate, no error), whatever its transaction type, account number,
\* narrative, description, merchant, categories or date
C1_ZeroRowSuppressed == (Classified /\ ZeroAmounts(row)) => RowSuppressed

\* a zero row of an unknown type, of an account outside the mapping, with a
\* narrative no parser reads and a date that does not parse, was suppressed
C1_Witness ==
  /\ Classified /\ ZeroAmounts(row)
  /\ row.type = "CHEQUE" /\ row.acct \notin DOMAIN idMapping
  /\ row.long = "EFTPOS PURCHASE" /\ row.date = "31/12/2022"
  /\ RowSuppressed

\* the narrative names account a as the destination of a transfer
NamesDestination(r, a) ==
  \/ /\ HasPrefix(r.long, "Transfer to ")
     /\ Match("TransferToRe", r.long).found
     /\ Match("TransferToRe", r.long).g[1] = a
  \/ /\ HasPrefix(r.long, "Net tfr to")
     /\ Match("NetTfrToRe", r.long).found
     /\ Match("NetTfrToRe", r.long).g[1] = a

\* the row is one whose destination the classifier looks up: type ALL and
\* either Description "Internet Transfer" with a "Transfer to " narrative, or
\* a "Net tfr to" narrative under a Description that is neither "Internet
\* Transfer" nor "Internet Ext Transfer"
DestinationLookedUp(r) ==
  /\ r.type = TypeAll
  /\ r.long \notin InterestLabels
  /\ \/ r.desc = "Internet Transfer" /\ HasPrefix(r.long, "Transfer to ")
     \/ /\ r.desc \notin {"Internet Transfer", "Internet Ext Transfer"}
        /\ HasPrefix(r.long, "Net tfr to")

TransferPayeeOf(r, p) ==
  /\ HasPrefix(r.long, "Transfer to")
  /\ Match("TransferToRe", r.long).found
  /\ Match("TransferToRe", r.long).g[1] \in DOMAIN idMapping
  /\ p.transfer_acct = Some(idMapping[Match("TransferToRe", r.long).g[1]])

\* the candidate of the row has payee p, no category and is cleared
ClearedTransferTo(p) ==
  /\ result.kind = "candidate"
  /\ transactions = <<result.txn>>
  /\ result.txn.payee = Some(p.id)
  /\ result.txn.category = Undefined
  /\ result.txn.cleared = TRUE

C5_NotesPipeJoin ==
  /\ result.kind = "candidate"
       => result.txn.notes = row.long \o "|" \o row.merchant \o "|" \o row.cats
  /\ \A i \in 1..Len(transactions) :
       transactions[i].notes = row.long \o "|" \o row.merchant \o "|" \o row.cats

\* a card row with a merchant and a category list became a candidate after
\* its category was created, and its notes are the three fields with pipes
C5_Witness ==
  /\ Classified /\ row.type = TypeVisa
  /\ row.merchant = "My Supermarket (Sydney)" /\ row.cats = "Supermarket, Groceries"
  /\ row.long = "VISA-BOTTLE SHOP 77 SYDNEY AU#000001(Ref.2222222222)"
  /\ calls["createCategory"] = 1
  /\ result.kind = "candidate"
  /\ transactions = <<result.txn>>
  /\ result.txn.notes = "VISA-BOTTLE SHOP 77 SYDNEY AU#000001(Ref.2222222222)"
                        \o "|My Supermarket (Sydney)|Supermarket, Groceries"

\* the payee of a BPAY narrative is made of word characters and spaces
PayeeWords(payee) == \A i \in 1..Len(payee) : CharAt(payee, i) \in WordCh \cup {" "}

\* C9: for a non-zero BPAY row of a mapped account whose narrative is
\* "Internet BPay to <payee words> - Biller Code <code> - Receipt No
\* <receipt>", the candidate has the payee words as payee name and
\* "<code>-<receipt>" as imported id
C9_BPayImportedId ==
  \A payee \in {p \in BPayPayees : PayeeWords(p)}, code \in BillerCodes,
     receipt \in ReceiptNumbers :
    (/\ Classified /\ ~ZeroAmounts(row) /\ row.type = TypeBPay
     /\ row.acct \in DOMAIN idMapping
     /\ row.long = "Internet BPay to " \o payee \o " - Biller Code " \o code
                   \o " - Receipt No " \o receipt)
      => /\ result.kind = "candidate"
         /\ transactions = <<result.txn>>
         /\ result.txn.payee_name = Some(payee)
         /\ result.txn.imported_id = Some(code \o "-" \o receipt)

\* the payment to Energy Co under biller code 12345 with receipt 987654321
\* became a candidate with imported id 12345-987654321
C9_Witness ==
  /\ Classified /\ ~ZeroAmounts(row) /\ row.type = TypeBPay
  /\ row.long = "Internet BPay to Energy Co - Biller Code 12345 - Receipt No 987654321"
  /\ result.kind = "candidate"
  /\ result.txn.payee_name = Some("Energy Co")
  /\ result.txn.imported_id = Some("12345-987654321")

(***************************************************************************)
(* Properties of a whole run, under Spec                                   *)
(***************************************************************************)
\* the row at hand is a card row whose category list is the overridden one
LiquorRow == row.type = TypeVisa /\ row.cats = "Liquor Store, Restricted"

\* C6: the candidate of a card row whose category list is exactly "Liquor
\* Store, Restricted" has the category named "Groceries" (the one of the
\* snapshot, or the one created under that name), the category asked for
\* when there is none yet is "Groceries", and no createCategory is ever
\* issued with the name "Liquor Store, Restricted"
C6_LiquorIsGroceries ==
  /\ \A i \in 1..Len(created) : created[i].name # "Liquor Store, Restricted"
  /\ (LiquorRow /\ result.kind = "create") => result.name = "Groceries"
  /\ (LiquorRow /\ result.kind = "candidate") =>
       \E i \in 1..Len(categories) :
         /\ categories[i].name = "Groceries"
         /\ result.txn.category = Some(categories[i].id)

\* a liquor-store row became a candidate whose category is the Groceries
\* category that was created for it in a budget that had none
C6_Witness ==
  /\ LiquorRow /\ result.kind = "candidate"
  /\ \A i \in 1..Len(ledger.categories) : ledger.categories[i].name # "Groceries"
  /\ \E i \in 1..Len(created) : created[i].name = "Groceries"
  /\ \E i \in 1..Len(categories) :
       categories[i].name = "Groceries" /\ result.txn.category = Some(categories[i].id)

\* C7: every category createCategoryAsync creates by name goes to the income
\* group if and only if its name is "Interest", and to the default group
\* otherwise; the cache holds it in the same group
C7_InterestIffIncomeGroup ==
  /\ \A i \in 1..Len(created) :
       /\ (created[i].group_id = groupIds.income[1]) <=> (created[i].name = "Interest")
       /\ (created[i].group_id = groupIds.default[1]) <=> (created[i].name # "Interest")
  /\ \A i \in 1..Len(categories) :
       (\E j \in 1..Len(created) : categories[i].id = NewCategoryId(j)) =>
         ((categories[i].group_id = groupIds.income[1]) <=> (categories[i].name = "Interest"))

\* one run has created "Interest" in the income group and another name in
\* the default group
C7_Witness ==
  /\ Len(created) = 2
  /\ \E i \in 1..2 : created[i].name = "Interest" /\ created[i].group_id = "group-income"
  /\ \E i \in 1..2 : created[i].name = "Groceries" /\ created[i].group_id = "group-usual"
  /\ inflight = "none"

\* a string of exactly eight digits
EightDigits(s) == Len(s) = 8 /\ \A i \in 1..8 : CharAt(s, i) \in Digit

\* a string of the canonical UUID shape: 8-4-4-4-12 hexadecimal digits
CanonicalUuid(s) ==
  /\ Len(s) = 36
  /\ \A i \in 1..36 :
       IF i \in {9, 14, 19, 24} THEN CharAt(s, i) = "-" ELSE CharAt(s, i) \in HexCh

\* the pair "<bank>=<ledger>" passes the format validation of the two sides
WellFormedPair(mappingStr) ==
  \E i \in 1..Len(mappingStr) :
    /\ CharAt(mappingStr, i) = "="
    /\ EightDigits(SubSeq(mappingStr, 1, i - 1))
    /\ CanonicalUuid(SubSeq(mappingStr, i + 1, Len(mappingStr)))

\* no remote call has been issued
NoNetworkActivity == \A c \in RemoteCalls : calls[c] = 0

\* C8 as stated: when a supplied pair fails the format validation (bank side
\* not exactly 8 digits, or ledger side not a canonical UUID-shaped string)
\* the program exits before any network activity: no session init, fetch,
\* category create, import or sync is ever issued in that run
C8_AsStated ==
  (\E i \in 1..Len(accountMapping) : ~WellFormedPair(accountMapping[i]))
    => NoNetworkActivity

\* C10: in a run no two createCategory calls are issued with the same name,
\* and none is issued with the name of a category of the snapshot fetched
\* at the start of the session
C10_CreateOncePerName ==
  /\ \A i, j \in 1..Len(created) : created[i].name = created[j].name => i = j
  /\ \A i \in 1..Len(created), k \in 1..Len(ledger.categories) :
       created[i].name # ledger.categories[k].name

\* two rows of one file asked for the same category, which was not in the
\* snapshot: it was created for the first and found in the cache for the second
C10_Witness ==
  /\ Len(created) = 1
  /\ Len(transactions) = 2
  /\ transactions[1].category = Some(NewCategoryId(1))
  /\ transactions[2].category = Some(NewCategoryId(1))
  /\ \A k \in 1..Len(ledger.categories) : ledger.categories[k].name # created[1].name

(***************************************************************************)
(* The submission of a file                                                *)
(***************************************************************************)
\* the candidates of the current file that go to account a, in file order
CandidatesOf(a) == SelectSeq(transactions, LAMBDA t : t.account = a)

\* every batch submitted so far for the current file is the only batch of its
\* account and holds that account's candidates, all of them, in file order
BatchesWellFormed ==
  \A i \in 1..Len(submitted) :
    /\ submitted[i].transactions = CandidatesOf(submitted[i].account)
    /\ submitted[i].transactions # <<>>
    /\ \A j \in 1..Len(submitted) : submitted[j].account = submitted[i].account => i = j

\* every account with a candidate has had its batch submitted
AllSubmitted ==
  \A k \in 1..Len(transactions) :
    \E i \in 1..Len(submitted) : submitted[i].account = transactions[k].account

\* the syncs triggered in the run: the downloadBudget calls but the one of
\* initialiseActualAsync
Syncs == calls["downloadBudget"] - 1

\* C11: for each file, the batches submitted are one per account with a
\* candidate, each holding exactly that account's candidates in file order;
\* no sync of the file is triggered before its last batch has been submitted,
\* and once all are submitted the sync is triggered once
C11_OneBatchPerAccountThenSync ==
  /\ pc \in {"import", "sync"} => BatchesWellFormed
  /\ pc \in {"rows", "create", "import"} => Syncs = fileNo - 1
  /\ pc = "sync" \/ (pc = "main" /\ fileNo >= 1) =>
       BatchesWellFormed /\ AllSubmitted /\ Syncs = fileNo

\* a file gave two candidates for two accounts: two batches were submitted,
\* in the order of the candidates, each with the candidate of its account,
\* and the sync is awaited
C11_Witness ==
  /\ pc = "sync"
  /\ Len(transactions) = 2
  /\ transactions[1].account # transactions[2].account
  /\ Len(submitted) = 2
  /\ submitted[1] = [account |-> transactions[1].account, transactions |-> <<transactions[1]>>]
  /\ submitted[2] = [account |-> transactions[2].account, transactions |-> <<transactions[2]>>]
  /\ Syncs = fileNo

(***************************************************************************)
(* Pattern-match misses                                                    *)
(***************************************************************************)
\* the narrative is that of the receiving side of a transfer
ReceivingSide(r) ==
  HasPrefix(r.long, "Received from") \/ HasPrefix(r.long, "Net tfr received from")

\* the narrative has one of the shapes the parser of the row's type reads
RecognisedShape(r) ==
  CASE r.type = TypeAllWdls ->
         \/ HasPrefix(r.long, "Osko Payment To") /\ Match("OskoToRe", r.long).found
         \/ HasPrefix(r.long, "Direct Debit") /\ Match("DirectDebitRe", r.long).found
    [] r.type = TypeAllDeposits ->
         \/ HasPrefix(r.long, "Osko Payment From") /\ Match("OskoFromRe", r.long).found
         \/ HasPrefix(r.long, "Direct Credit") /\ Match("DirectCreditRe", r.long).found
         \/ HasPrefix(r.long, "SWIFT")
    [] r.type = TypeBPay -> Match("BPayRe", r.long).found
    [] OTHER -> TRUE

\* the row raised an error that ended the run, and gave no candidate
RowRaisedError ==
  /\ result.kind = "error"
  /\ pc = "aborted"
  /\ error = result.error
  /\ transactions = <<>>

\* C12: a row whose amounts are not both zero is suppressed only when it is a
\* row of type ALL that is the receiving side of a transfer; such a row of
\* type ALL WDLS, ALL DEPOSITS or BPAY whose narrative has none of the shapes
\* its parser reads raises an error, and gives no candidate and no suppression
C12_MissIsHardError ==
  (Classified /\ ~ZeroAmounts(row)) =>
    /\ result = Suppressed => row.type = TypeAll /\ ReceivingSide(row)
    /\ (row.type \in {TypeAllWdls, TypeAllDeposits, TypeBPay} /\ ~RecognisedShape(row))
         => RowRaisedError

\* a payment row of a mapped account whose narrative begins as an Osko payment
\* does and lacks the reference raised the Osko error
C12_Witness ==
  /\ Classified /\ ~ZeroAmounts(row)
  /\ row.acct \in DOMAIN idMapping
  /\ row.type = TypeAllWdls /\ row.long = "Osko Payment To Jane"
  /\ RowRaisedError /\ error = ErrOsko

\* the row is one no branch of parseTransactionTypeAllAsync takes: it has
\* none of the shapes transfer to / received from (under "Internet
\* Transfer"), interest or fee label, external transfer, Net tfr to /
\* received from
FallsThroughAll(r) ==
  IF r.desc = "Internet Transfer"
  THEN ~HasPrefix(r.long, "Transfer to ") /\ ~HasPrefix(r.long, "Received from")
  ELSE /\ r.long \notin InterestLabels
       /\ r.desc # "Internet Ext Transfer"
       /\ ~HasPrefix(r.long, "Net tfr to")
       /\ ~HasPrefix(r.long, "Net tfr received from")

\* the row gave a candidate that is not cleared and has no payee id, no
\* payee name, no category and no imported id; no error was raised
UnclearedBare ==
  /\ result.kind = "candidate"
  /\ result.txn.cleared = FALSE
  /\ result.txn.payee = Undefined /\ result.txn.payee_name = Undefined
  /\ result.txn.category = Undefined /\ result.txn.imported_id = Undefined
  /\ transactions = <<result.txn>>
  /\ pc = "rows" /\ error = ""

\* a candidate of a row that another branch took is cleared
OtherBranchesCleared ==
  (Classified /\ result.kind = "candidate" /\ ~(row.type = TypeAll /\ FallsThroughAll(row)))
    => result.txn.cleared = TRUE

\* C13 as stated: every row of type ALL whose amounts are not both zero and
\* that has none of the recognised ALL shapes raises no error and gives a
\* candidate that is not cleared, without payee id, payee name, category and
\* imported id; every candidate of another branch is cleared
C13_AsStated ==
  /\ (Classified /\ ~ZeroAmounts(row) /\ row.type = TypeAll /\ FallsThroughAll(row))
       => UnclearedBare
  /\ OtherBranchesCleared

\* C13: every row of type ALL of an account in the mapping whose amounts are
\* not both zero and that has none of the recognised ALL shapes raises no
\* error and gives a candidate that is not cleared, without payee id, payee
\* name, category and imported id; every candidate of another branch is
\* cleared
C13_CatchAllUncleared ==
  /\ (/\ Classified /\ ~ZeroAmounts(row)
      /\ row.acct \in DOMAIN idMapping
      /\ row.type = TypeAll /\ FallsThroughAll(row))
       => UnclearedBare
  /\ OtherBranchesCleared

\* a purchase row of type ALL of a mapped account, with a narrative no branch
\* reads, gave the bare candidate that is not cleared
C13_Witness ==
  /\ Classified /\ ~ZeroAmounts(row)
  /\ row.acct \in DOMAIN idMapping
  /\ row.type = TypeAll /\ row.desc = "PURCHASE" /\ row.long = "EFTPOS PURCHASE"
  /\ UnclearedBare

\* the narrative holds a reference "Ref.<digits>"
HasReference(r) == Match("ReferenceNumberRe", r.long).found

\* the row reaches the parser of its type: its amounts are not both zero and
\* its account is in the mapping
ReachesParser(r) == ~ZeroAmounts(r) /\ r.acct \in DOMAIN idMapping

\* the id of the category a card row resolves to, once it is in the cache
CardCategory(r) ==
  LET name == VisaCategoryName(r.cats)
      hits == {k \in 1..Len(categories) : categories[k].name = name}
  IN IF name = "" \/ hits = {} THEN Undefined
     ELSE Some(categories[CHOOSE k \in hits : \A j \in hits : k <= j].id)

\* a card row whose payee can be extracted gave a candidate, or awaits the
\* creation of its category: no suppression, and no error but the failure
\* of that remote call; the candidate has the payee name and the category of
\* the card rules, and an imported id if and only if the narrative holds a
\* reference
CardRowKept(r) ==
  /\ result.kind \in {"candidate", "create"}
  /\ error # "" => result.kind = "create" /\ error = ErrRemote
  /\ result.kind = "candidate" =>
       /\ transactions = <<result.txn>>
       /\ result.txn.payee_name = VisaPayeeName(r)
       /\ result.txn.category = CardCategory(r)
       /\ result.txn.cleared = TRUE
       /\ HasReference(r) => result.txn.imported_id = Some(Match("ReferenceNumberRe", r.long).g[1])
       /\ ~HasReference(r) => result.txn.imported_id = Undefined

\* the expression the parser of the row's type runs on the narrative to
\* extract its fields, the reference of a card row aside; "none" when it
\* runs none
AppliedExpression(r) ==
  CASE r.type = TypeAll ->
         IF r.desc = "Internet Transfer"
         THEN (IF HasPrefix(r.long, "Transfer to ") THEN "TransferToRe" ELSE "none")
         ELSE IF r.long \in InterestLabels THEN "none"
         ELSE IF r.desc = "Internet Ext Transfer" THEN "ExtTransferRe"
         ELSE IF HasPrefix(r.long, "Net tfr to") THEN "NetTfrToRe"
         ELSE "none"
    [] r.type = TypeAllWdls ->
         IF HasPrefix(r.long, "Osko Payment To") THEN "OskoToRe"
         ELSE IF HasPrefix(r.long, "Direct Debit") THEN "DirectDebitRe"
         ELSE "none"
    [] r.type = TypeAllDeposits ->
         IF HasPrefix(r.long, "Osko Payment From") THEN "OskoFromRe"
         ELSE IF HasPrefix(r.long, "Direct Credit") THEN "DirectCreditRe"
         ELSE "none"
    [] r.type = TypeBPay -> "BPayRe"
    [] r.type = TypeVisa ->
         IF r.merchant \in {"PayPal", "Square"} THEN "GatewayPayeeRe"
         ELSE IF r.merchant = "" THEN "VisaPayeeRe"
         ELSE "none"
    [] OTHER -> "none"

\* the expression the parser runs on the narrative does not match it
ExpressionMisses(r) ==
  AppliedExpression(r) # "none" /\ ~Match(AppliedExpression(r), r.long).found

\* the narrative has none of the shapes the parser of the row's type knows
ShapeMisses(r) ==
  \/ ExpressionMisses(r)
  \/ ~RecognisedShape(r)
  \/ r.type = TypeAll /\ FallsThroughAll(r)

\* C14 as stated: a card row without a reference whose payee can be extracted
\* is neither an error nor a suppression and gives a candidate with the payee
\* name and the category of the card rules and no imported id; every other
\* miss of a pattern is an error or a suppression
C14_AsStated ==
  /\ (Classified /\ row.type = TypeVisa /\ ~HasReference(row)
        /\ VisaPayeeName(row) # Undefined) => CardRowKept(row)
  /\ (Classified /\ ShapeMisses(row)) => result.kind \in {"error", "suppress"}

\* C14: a card row of an account in the mapping, whose amounts are not both
\* zero, without a reference and whose payee can be extracted is neither an
\* error nor a suppression: it gives a candidate with the payee name and the
\* category of the card rules, as a card row with a reference does, and with
\* no imported id; every other expression a parser runs on the narrative of
\* such a row raises an error when it does not match
C14_ReferenceMissKept ==
  /\ (Classified /\ ReachesParser(row) /\ row.type = TypeVisa
        /\ VisaPayeeName(row) # Undefined) => CardRowKept(row)
  /\ (Classified /\ ReachesParser(row) /\ ExpressionMisses(row)) => RowRaisedError

\* a refund on a card, without merchant, categories and reference, gave a
\* candidate with the payee of the narrative and no imported id
C14_Witness ==
  /\ Classified /\ ReachesParser(row)
  /\ row.type = TypeVisa /\ row.long = "VISA Refund-Store Name NL#234567"
  /\ row.merchant = "" /\ row.cats = ""
  /\ ~HasReference(row)
  /\ result.kind = "candidate"
  /\ result.txn.payee_name = Some("Store Name Nl")
  /\ result.txn.category = Undefined
  /\ result.txn.imported_id = Undefined
  /\ pc = "rows" /\ error = ""

(***************************************************************************)
(* Dates                                                                   *)
(***************************************************************************)
\* C15 as stated: a row whose effective date does not match the format makes
\* the date normalisation fail and aborts the file, so that no candidate with
\* an invalid date is produced, and none is part of a batch submitted to the
\* ledger
C15_AsStated ==
  \A i \in 1..Len(submitted) :
    \A j \in 1..Len(submitted[i].transactions) : submitted[i].transactions[j].date.valid

(***************************************************************************)
(* The order of the steps of a run                                         *)
(***************************************************************************)
\* the remote call the program waits for at each of its positions
AwaitedAt(position) ==
  CASE position = "init" -> "init"
    [] position = "download" -> "downloadBudget"
    [] position = "getAccounts" -> "getAccounts"
    [] position = "getPayees" -> "getPayees"
    [] position = "getCategories" -> "getCategories"
    [] position = "create" -> "createCategory"
    [] position = "import" -> "importTransactions"
    [] position = "sync" -> "downloadBudget"
    [] position = "shutdown" -> "shutdown"
    [] OTHER -> "none"

\* the step issues a remote call
IssuesCall == calls' # calls

\* the step issues exactly the remote call c, once
IssuesOnly(c) == calls' = [calls EXCEPT ![c] = @ + 1]

\* the step hands a row to the classifier
ClassifiesRow == rowNo' = rowNo + 1

\* the step starts the next file
StartsFile == fileNo' # fileNo

\* C16: the program waits for at most one remote call at any point, the one
\* of its position; a step issues at most one call, which is then the one
\* awaited; a row is classified only when no call is awaited and the row
\* before it has been dealt with; the first row of a file is classified only
\* after the batches and the sync of every file before it
C16_StrictlySequential ==
  /\ [](inflight = AwaitedAt(pc))
  /\ [][ /\ IssuesCall => \E c \in RemoteCalls : IssuesOnly(c) /\ inflight' = c
         /\ ClassifiesRow =>
              /\ pc = "rows" /\ inflight = "none"
              /\ result.kind \in {"none", "suppress", "candidate"}
              /\ Syncs = fileNo - 1
         /\ StartsFile =>
              /\ fileNo' = fileNo + 1 /\ rowNo' = 0
              /\ pc = "main" /\ inflight = "none"
              /\ fileNo >= 1 => AllSubmitted /\ Syncs = fileNo ]_vars

\* the second row of the second file awaits the creation of its category,
\* after the batch and the sync of the first file
C16_Witness ==
  /\ fileNo = 2 /\ rowNo = 2
  /\ pc = "create" /\ inflight = "createCategory"
  /\ calls["importTransactions"] >= 1
  /\ Syncs = 1

\* a remote call has failed
RemoteFailed == error = ErrRemote

\* C17: the failure of a remote call ends the run.  The step in which the
\* call fails issues no call (the call is not made again) and leaves the
\* program aborted with nothing awaited; after it no call is issued, no row
\* is classified and no file is started
C17_RemoteFailureAborts ==
  /\ [](RemoteFailed => pc = "aborted" /\ inflight = "none")
  /\ [][ /\ (~RemoteFailed /\ RemoteFailed') => inflight # "none" /\ ~IssuesCall
         /\ RemoteFailed => ~IssuesCall /\ ~ClassifiesRow /\ ~StartsFile /\ RemoteFailed' ]_vars

\* the first of two batches of the first file failed: the run is over with
\* one import issued, the second batch not submitted and no sync
C17_Witness ==
  /\ RemoteFailed /\ pc = "aborted"
  /\ fileNo = 1 /\ Len(groups) = 2 /\ batchNo = 1
  /\ calls["importTransactions"] = 1
  /\ Syncs = 0

(***************************************************************************)
(* The session and its snapshot                                            *)
(***************************************************************************)
\* the calls that fetch the snapshot
FetchCalls == {"getAccounts", "getPayees", "getCategories"}

\* the step issues a sync: the downloadBudget of syncActualAsync
IssuesSync == IssuesOnly("downloadBudget") /\ pc' = "sync"

\* the cache holds the snapshot fetched at the start of the session, and
\* after its categories those created since, in the order of their creation
SnapshotCached ==
  /\ accounts = ledger.accounts
  /\ payees = ledger.payees
  /\ Len(categories) >= Len(ledger.categories)
  /\ SubSeq(categories, 1, Len(ledger.categories)) = ledger.categories
  /\ \A k \in 1..(Len(categories) - Len(ledger.categories)) :
       /\ k <= Len(created)
       /\ categories[Len(ledger.categories) + k].name = created[k].name
       /\ categories[Len(ledger.categories) + k].id = NewCategoryId(k)

\* C18: in a run the session is started and accounts, payees and categories
\* are fetched at most once, and exactly once before any row is classified;
\* while the session is there the cache holds that snapshot and the
\* categories created since, also in the files after the first; no
\* createCategory, import or sync is issued while the session is not there
C18_OneSessionPerRun ==
  /\ [](/\ calls["init"] <= 1
        /\ \A c \in FetchCalls : calls[c] <= 1
        /\ isInitialised => SnapshotCached /\ \A c \in FetchCalls \cup {"init"} : calls[c] = 1)
  /\ [][ /\ ClassifiesRow => isInitialised
         /\ (\E c \in FetchCalls \cup {"init"} : IssuesOnly(c)) => fileNo' = 1 /\ rowNo' = 0
         /\ (IssuesOnly("createCategory") \/ IssuesOnly("importTransactions") \/ IssuesSync)
              => isInitialised ]_vars

\* the second file starts with the session of the first: nothing is fetched
\* again, and the category created for a row of the first file is in the cache
C18_Witness ==
  /\ fileNo = 2 /\ pc = "rows" /\ rowNo = 0
  /\ isInitialised
  /\ \A c \in FetchCalls \cup {"init"} : calls[c] = 1
  /\ Len(created) = 1
  /\ Len(categories) = Len(ledger.categories) + 1
  /\ categories[Len(categories)].name = created[1].name

\* the step is the return of a createCategory that succeeded
CreateSucceeds == pc = "create" /\ pc' = "rows"

\* C19: once the session is there, a step leaves the cached categories as
\* they are or appends one category to them, and it appends one exactly when
\* a createCategory returns, the category of the name asked for; no entry is
\* removed or changed; the cached payees and accounts are never changed
C19_CacheOnlyGrows ==
  [][ isInitialised =>
        /\ payees' = payees
        /\ accounts' = accounts
        /\ IF CreateSucceeds
           THEN /\ Len(categories') = Len(categories) + 1
                /\ SubSeq(categories', 1, Len(categories)) = categories
                /\ categories'[Len(categories')].name = created[Len(created)].name
           ELSE categories' = categories ]_vars

\* two categories were created in the run: the cache holds the snapshot and
\* after it the two, and the payees and accounts of the snapshot
C19_Witness ==
  /\ isInitialised /\ pc = "rows"
  /\ Len(created) = 2
  /\ Len(categories) = Len(ledger.categories) + 2
  /\ SubSeq(categories, 1, Len(ledger.categories)) = ledger.categories
  /\ payees = ledger.payees /\ accounts = ledger.accounts

(***************************************************************************)
(* Classification before submission                                        *)
(***************************************************************************)
\* the classification of a row of the current file ended in an error: the
\* row raised one, or the creation of its category failed
RowFailed == result.kind = "error" \/ (result.kind = "create" /\ pc = "aborted")

\* C20: a row of a file is classified only before any batch of that file is
\* submitted; when a row of a file ends in an error the run is over with no
\* batch and no sync of that file issued, and nothing is issued afterwards;
\* the imports and syncs issued for the files before are not taken back
C20_ClassifyAllThenSubmit ==
  /\ [](RowFailed => pc = "aborted" /\ submitted = <<>> /\ batchNo = 0 /\ Syncs = fileNo - 1)
  /\ [][ /\ ClassifiesRow => submitted = <<>> /\ batchNo = 0 /\ Syncs = fileNo - 1
         /\ (IssuesOnly("importTransactions") \/ IssuesSync) =>
              /\ ~ClassifiesRow /\ rowNo' = rowNo
              /\ result.kind \in {"none", "suppress", "candidate"}
         /\ RowFailed => ~IssuesCall
         /\ \A c \in RemoteCalls : calls'[c] >= calls[c] ]_vars

\* the second row of the second file raised an error after the first had
\* given a candidate: no batch and no sync of the second file was issued,
\* the batch and the sync of the first file had been
C20_Witness ==
  /\ fileNo = 2 /\ rowNo = 2
  /\ pc = "aborted" /\ result.kind = "error"
  /\ Len(transactions) = 1
  /\ submitted = <<>>
  /\ calls["importTransactions"] >= 1
  /\ Syncs = 1

(***************************************************************************)
(* The end of the session                                                  *)
(***************************************************************************)
\* the step issues the shutdown call
IssuesShutdown == IssuesOnly("shutdown")

\* the shutdown call has been issued
ShutdownIssued == calls["shutdown"] >= 1

\* an error has left main
RunAborted == pc = "aborted"

\* initialiseActualAsync has run to its end in this run: the group ids are
\* set in the lines before the mark
SessionStarted == groupIds # NoGroupIds

\* every file given has been read, its batches submitted and its sync called
AllFilesSynced == fileNo = files /\ AllSubmitted /\ Syncs = files

\* C21 as stated: the shutdown call is issued once in a run, after every
\* file has been processed and synced; in a run ended by an error it has not
\* been issued and the session is marked initialised
C21_AsStated ==
  /\ calls["shutdown"] <= 1
  /\ pc = "done" => calls["shutdown"] = 1
  /\ ShutdownIssued => AllFilesSynced
  /\ RunAborted => ~ShutdownIssued /\ isInitialised

\* C21: the shutdown call is issued at most once in a run and exactly once
\* in a run that ends without error, which leaves the session marked not
\* initialised; it is issued only when every file given has been processed
\* and synced and nothing is awaited, and no call, row or file follows it.
\* In a run ended by an error the shutdown call has not been issued unless
\* it is the shutdown call that failed; the mark is cleared only by the
\* return of the shutdown call, so a run ended by an error has its session
\* marked initialised exactly when the session had been started
C21_ShutdownOnceAfterAllFiles ==
  /\ [](/\ calls["shutdown"] <= 1
        /\ pc = "done" => calls["shutdown"] = 1 /\ ~isInitialised /\ error = ""
        /\ ShutdownIssued => AllFilesSynced /\ pc \in {"shutdown", "done", "aborted"}
        /\ RunAborted => /\ isInitialised = SessionStarted
                         /\ ShutdownIssued => error = ErrRemote)
  /\ [][ /\ IssuesShutdown => pc = "main" /\ inflight = "none" /\ error = "" /\ AllFilesSynced
         /\ ShutdownIssued => ~IssuesCall /\ ~ClassifiesRow /\ ~StartsFile
         /\ (isInitialised /\ ~isInitialised') =>
              pc = "shutdown" /\ pc' = "done" /\ inflight = "shutdown" ]_vars

\* a run of two files has ended without error: both files were synced, the
\* shutdown call was issued once and the session is marked not initialised
C21_Witness ==
  /\ pc = "done" /\ error = ""
  /\ files = 2 /\ fileNo = 2 /\ Syncs = 2
  /\ calls["importTransactions"] >= 2
  /\ calls["shutdown"] = 1
  /\ ~isInitialised

====
